---- MODULE Spec2Model ----
(***************************************************************************)
(* Model of the enhanced Congress scraper (scraper_enhanced.py) and of the *)
(* record validator it calls (utils/data_validator.py).                    *)
(*                                                                         *)
(* Python strings are sequences of one-character strings, so that strip,   *)
(* split, upper and the regular expressions are computed on characters.    *)
(* A ValidationResult is a record; Optional cleaned_data is a sequence of  *)
(* zero or one values.                                                     *)
(***************************************************************************)
EXTENDS Integers, Sequences, FiniteSets, TLC

\* ------------------------------------------------------------------ bounds
\* Largest value the model draws for env.scraping.max_pages.
MaxPagesBound == 2
\* Largest value the model draws for env.scraping.max_retries.
MaxRetriesBound == 3
\* Number of scrape() calls made on one scraper instance.
MaxRuns == 2

\* Largest number of rows of a result page scraped on its own.
MaxRows == 3

\* ------------------------------------------------------- string primitives
SetMin(S) == CHOOSE x \in S : \A y \in S : x <= y
SetMax(S) == CHOOSE x \in S : \A y \in S : x >= y

DigitChars == <<"0", "1", "2", "3", "4", "5", "6", "7", "8", "9">>
IsDigit(c) == \E i \in 1..10 : DigitChars[i] = c
DigitVal(c) == (CHOOSE i \in 1..10 : DigitChars[i] = c) - 1

LowerChars == <<"a", "b", "c", "d", "e", "f", "g", "h", "i", "j", "k", "l", "m",
                "n", "o", "p", "q", "r", "s", "t", "u", "v", "w", "x", "y", "z",
                "á", "é", "í", "ó", "ú", "ñ">>
UpperChars == <<"A", "B", "C", "D", "E", "F", "G", "H", "I", "J", "K", "L", "M",
                "N", "O", "P", "Q", "R", "S", "T", "U", "V", "W", "X", "Y", "Z",
                "Á", "É", "Í", "Ó", "Ú", "Ñ">>
IsAsciiUpper(c) == \E i \in 1..26 : UpperChars[i] = c
IsSpace(c) == c \in {" ", "\t", "\n"}

\* str.upper(), character by character
UpperChar(c) ==
    IF \E i \in 1..Len(LowerChars) : LowerChars[i] = c
    THEN UpperChars[CHOOSE i \in 1..Len(LowerChars) : LowerChars[i] = c]
    ELSE c
Upper(s) == [i \in 1..Len(s) |-> UpperChar(s[i])]

\* str.strip()
Strip(s) ==
    LET keep == {i \in 1..Len(s) : ~IsSpace(s[i])}
    IN IF keep = {} THEN <<>> ELSE SubSeq(s, SetMin(keep), SetMax(keep))

\* sub in s
Contains(s, sub) ==
    \E i \in 1..(Len(s) - Len(sub) + 1) : SubSeq(s, i, i + Len(sub) - 1) = sub

\* s.split(ch)
RECURSIVE SplitOn(_, _)
SplitOn(s, ch) ==
    LET at == {i \in 1..Len(s) : s[i] = ch}
    IN IF at = {} THEN <<s>>
       ELSE LET k == SetMin(at)
            IN <<SubSeq(s, 1, k - 1)>> \o SplitOn(SubSeq(s, k + 1, Len(s)), ch)
SplitComma(s) == SplitOn(s, ",")

\* ------------------------------------------------- DataValidator.patterns
\* r'^\d+/\d{4}-[A-Z]{2}$'
MatchProyecto(s) ==
    LET n == Len(s)
    IN /\ n >= 9
       /\ \A i \in 1..(n - 8) : IsDigit(s[i])
       /\ s[n - 7] = "/"
       /\ \A i \in (n - 6)..(n - 3) : IsDigit(s[i])
       /\ s[n - 2] = "-"
       /\ IsAsciiUpper(s[n - 1]) /\ IsAsciiUpper(s[n])

\* r'^\d{2}/\d{2}/\d{4}$'
MatchFecha(s) ==
    /\ Len(s) = 10
    /\ \A i \in {1, 2, 4, 5, 7, 8, 9, 10} : IsDigit(s[i])
    /\ s[3] = "/" /\ s[6] = "/"

\* r'^[A-ZÁÉÍÓÚÑ\s]+$'
MatchUpperSpace(s) ==
    /\ Len(s) >= 1
    /\ \A i \in 1..Len(s) :
          \/ IsSpace(s[i])
          \/ \E j \in 1..Len(UpperChars) : UpperChars[j] = s[i]

\* datetime.strptime(s, '%d/%m/%Y') on a string that matches MatchFecha:
\* <<day, month, year>>, or <<>> for ValueError
IsLeap(y) == (y % 4 = 0 /\ y % 100 # 0) \/ y % 400 = 0
DaysIn(m, y) ==
    IF m = 2 THEN (IF IsLeap(y) THEN 29 ELSE 28)
    ELSE IF m \in {4, 6, 9, 11} THEN 30 ELSE 31
Strptime(s) ==
    LET d == DigitVal(s[1]) * 10 + DigitVal(s[2])
        m == DigitVal(s[4]) * 10 + DigitVal(s[5])
        y == DigitVal(s[7]) * 1000 + DigitVal(s[8]) * 100
             + DigitVal(s[9]) * 10 + DigitVal(s[10])
    IN IF y >= 1 /\ m \in 1..12 /\ d >= 1 /\ d <= DaysIn(m, y)
       THEN <<d, m, y>> ELSE <<>>

\* DataValidator.valid_states / valid_proponents, as character sequences
ValidStates ==
    {<<"E", "N", "V", "I", "A", "D", "O">>,
     <<"R", "E", "C", "I", "B", "I", "D", "O">>,
     <<"D", "E", "R", "I", "V", "A", "D", "O">>,
     <<"O", "B", "S", "E", "R", "V", "A", "D", "O">>,
     <<"A", "P", "R", "O", "B", "A", "D", "O">>,
     <<"R", "E", "C", "H", "A", "Z", "A", "D", "O">>,
     <<"A", "R", "C", "H", "I", "V", "A", "D", "O">>,
     <<"R", "E", "T", "I", "R", "A", "D", "O">>,
     <<"P", "R", "E", "S", "E", "N", "T", "A", "D", "O">>,
     <<"P", "U", "B", "L", "I", "C", "A", "D", "O">>}
ValidProponents ==
    {<<"C", "O", "N", "G", "R", "E", "S", "O">>,
     <<"C", "O", "N", "G", "R", "E", "S", "I", "S", "T", "A">>,
     <<"C", "O", "N", "G", "R", "E", "S", "I", "S", "T", "A", "S">>,
     <<"P", "R", "E", "S", "I", "D", "E", "N", "T", "E">>,
     <<"C", "O", "M", "I", "S", "I", "O", "N">>,
     <<"M", "E", "S", "A", " ", "D", "I", "R", "E", "C", "T", "I", "V", "A">>,
     <<"G", "R", "U", "P", "O", " ", "P", "A", "R", "L", "A", "M", "E", "N", "T", "A", "R", "I", "O">>}

\* -------------------------------------------------------- ValidationResult
ValidationResult(is_valid, errors, warnings, cleaned_data) ==
    [is_valid |-> is_valid, errors |-> errors, warnings |-> warnings,
     cleaned_data |-> cleaned_data]

\* float('nan'), a missing value of a DataFrame: no string of characters
NaN == <<"NaN">>
\* `not value`: true of '' (and of []); NaN is a non-zero float, so truthy
Falsy(s) == s = <<>>
\* pd.isna(value) for a scalar
pd_isna(value) == value = NaN
\* record.get(field_name, default)
Get(record, field_name, default) ==
    IF field_name \in DOMAIN record THEN record[field_name] ELSE default

\* The f-string messages are kept without the interpolated value.
validate_proyecto(proyecto) ==
    IF Falsy(proyecto) \/ pd_isna(proyecto)
    THEN ValidationResult(FALSE, <<"Número de proyecto es requerido">>, <<>>, <<>>)
    ELSE LET proyecto_str == Strip(proyecto)
         IN ValidationResult(TRUE, <<>>,
                IF ~MatchProyecto(proyecto_str)
                THEN <<"Formato de proyecto inusual">> ELSE <<>>,
                <<proyecto_str>>)

validate_fecha(fecha) ==
    IF Falsy(fecha) \/ pd_isna(fecha)
    THEN ValidationResult(FALSE, <<"Fecha es requerida">>, <<>>, <<>>)
    ELSE LET fecha_str == Strip(fecha)
         IN IF ~MatchFecha(fecha_str)
            THEN ValidationResult(FALSE, <<"Formato de fecha inválido">>, <<>>, <<>>)
            ELSE LET parsed_date == Strptime(fecha_str)
                 IN IF parsed_date = <<>>
                    THEN ValidationResult(FALSE, <<"Fecha inválida">>, <<>>, <<>>)
                    ELSE ValidationResult(TRUE, <<>>,
                            IF parsed_date[3] < 2000 \/ parsed_date[3] > 2030
                            THEN <<"Año inusual">> ELSE <<>>,
                            <<fecha_str>>)

TestTitles == {<<"t", "e", "s", "t">>, <<"p", "r", "u", "e", "b", "a">>,
               <<"e", "j", "e", "m", "p", "l", "o">>}
Lower(s) ==
    [i \in 1..Len(s) |->
        IF \E j \in 1..Len(UpperChars) : UpperChars[j] = s[i]
        THEN LowerChars[CHOOSE j \in 1..Len(UpperChars) : UpperChars[j] = s[i]]
        ELSE s[i]]

validate_titulo(titulo) ==
    IF Falsy(titulo) \/ pd_isna(titulo)
    THEN ValidationResult(FALSE, <<"Título es requerido">>, <<>>, <<>>)
    ELSE LET titulo_str == Strip(titulo)
         IN ValidationResult(TRUE, <<>>,
                (IF Len(titulo_str) < 10 THEN <<"Título muy corto">>
                 ELSE IF Len(titulo_str) > 500 THEN <<"Título muy largo">>
                 ELSE <<>>)
                \o (IF Lower(titulo_str) \in TestTitles
                    THEN <<"Título parece ser de prueba">> ELSE <<>>),
                <<titulo_str>>)

validate_estado(estado) ==
    IF Falsy(estado) \/ pd_isna(estado)
    THEN ValidationResult(FALSE, <<"Estado es requerido">>, <<>>, <<>>)
    ELSE LET estado_str == Upper(Strip(estado))
         IN ValidationResult(TRUE, <<>>,
                (IF ~MatchUpperSpace(estado_str)
                 THEN <<"Estado con caracteres inusuales">> ELSE <<>>)
                \o (IF estado_str \notin ValidStates
                    THEN <<"Estado no reconocido">> ELSE <<>>),
                <<estado_str>>)

validate_proponente(proponente) ==
    IF Falsy(proponente) \/ pd_isna(proponente)
    THEN ValidationResult(FALSE, <<"Proponente es requerido">>, <<>>, <<>>)
    ELSE LET proponente_str == Upper(Strip(proponente))
             is_known == \E known \in ValidProponents : Contains(proponente_str, known)
         IN ValidationResult(TRUE, <<>>,
                (IF ~MatchUpperSpace(proponente_str)
                 THEN <<"Proponente con caracteres inusuales">> ELSE <<>>)
                \o (IF ~is_known
                    THEN <<"Tipo de proponente no reconocido">> ELSE <<>>),
                <<proponente_str>>)

\* warnings.append("Autor inválido o muy corto") for every dropped token
RECURSIVE AutoresWarnings(_)
AutoresWarnings(autores_list) ==
    IF autores_list = <<>> THEN <<>>
    ELSE (IF Len(Head(autores_list)) > 2 THEN <<>>
          ELSE <<"Autor inválido o muy corto">>)
         \o AutoresWarnings(Tail(autores_list))

\* validate_autores with an empty author text made an error
validate_autores_EmptyIsError(autores) ==
    IF Falsy(autores) \/ pd_isna(autores)
    THEN ValidationResult(FALSE, <<"Lista de autores vacía">>, <<>>, <<>>)
    ELSE LET autores_str == Strip(autores)
             split == SplitComma(autores_str)
             autores_list == [i \in 1..Len(split) |-> Strip(split[i])]
             autores_clean == SelectSeq(autores_list, LAMBDA autor : Len(autor) > 2)
             warnings ==
                (IF Len(autores_str) < 3 THEN <<"Lista de autores muy corta">> ELSE <<>>)
                \o (IF Contains(Lower(autores_str), <<"t", "e", "s", "t">>)
                       \/ Contains(Lower(autores_str), <<"p", "r", "u", "e", "b", "a">>)
                    THEN <<"Lista de autores parece ser de prueba">> ELSE <<>>)
                \o AutoresWarnings(autores_list)
         IN IF autores_clean = <<>>
            THEN ValidationResult(FALSE, <<"No se encontraron autores válidos">>,
                                  warnings, <<>>)
            ELSE ValidationResult(TRUE, <<>>, warnings, <<autores_clean>>)

validate_autores(autores) ==
    IF Falsy(autores) \/ pd_isna(autores)
    THEN ValidationResult(TRUE, <<>>, <<"Lista de autores vacía">>, << <<>> >>)
    ELSE LET autores_str == Strip(autores)
             split == SplitComma(autores_str)
             autores_list == [i \in 1..Len(split) |-> Strip(split[i])]
             autores_clean == SelectSeq(autores_list, LAMBDA autor : Len(autor) > 2)
             warnings ==
                (IF Len(autores_str) < 3 THEN <<"Lista de autores muy corta">> ELSE <<>>)
                \o (IF Contains(Lower(autores_str), <<"t", "e", "s", "t">>)
                       \/ Contains(Lower(autores_str), <<"p", "r", "u", "e", "b", "a">>)
                    THEN <<"Lista de autores parece ser de prueba">> ELSE <<>>)
                \o AutoresWarnings(autores_list)
         IN IF autores_clean = <<>>
            THEN ValidationResult(FALSE, <<"No se encontraron autores válidos">>,
                                  warnings, <<>>)
            ELSE ValidationResult(TRUE, <<>>, warnings, <<autores_clean>>)

\* str(autores) of a list of str: "['Ana P', 'Luz']"
RECURSIVE ReprItems(_)
ReprItems(items) ==
    IF items = <<>> THEN <<>>
    ELSE <<"'">> \o Head(items) \o <<"'">>
         \o (IF Len(items) > 1 THEN <<",", " ">> ELSE <<>>)
         \o ReprItems(Tail(items))
ReprList(items) == <<"[">> \o ReprItems(items) \o <<"]">>

\* validate_autores when autores is a list, as a row of cleaned_df holds it.
\* `not autores or pd.isna(autores)`: pd.isna of a list is an array with an
\* element per author, and the truth value of an array of two or more
\* elements raises ValueError.
autores_list_exception(autores) ==
    IF Len(autores) >= 2 THEN "ValueError" ELSE "none"
validate_autores_list(autores) ==
    IF Falsy(autores)
    THEN ValidationResult(TRUE, <<>>, <<"Lista de autores vacía">>, << <<>> >>)
    ELSE validate_autores(ReprList(autores))

\* ------------------------------------------------------------ whole records
FieldOrder == <<"proyecto", "fecha", "titulo", "estado", "proponente", "autores">>
Fields == {FieldOrder[i] : i \in 1..Len(FieldOrder)}

\* datetime.strptime(fecha, '%d/%m/%Y') on any string: %d and %m take one or
\* two digits (%d also a space and a digit), %Y exactly four
StrptimeAny(s) ==
    LET parts == SplitOn(s, "/")
        Num(p) == IF Len(p) = 1 THEN DigitVal(p[1])
                  ELSE IF p[1] = " " THEN DigitVal(p[2])
                  ELSE DigitVal(p[1]) * 10 + DigitVal(p[2])
        DayShape(p) == \/ Len(p) \in {1, 2} /\ \A i \in 1..Len(p) : IsDigit(p[i])
                       \/ Len(p) = 2 /\ p[1] = " " /\ IsDigit(p[2])
        MonthShape(p) == Len(p) \in {1, 2} /\ \A i \in 1..Len(p) : IsDigit(p[i])
        YearShape(p) == Len(p) = 4 /\ \A i \in 1..4 : IsDigit(p[i])
    IN IF Len(parts) = 3 /\ DayShape(parts[1]) /\ MonthShape(parts[2])
          /\ YearShape(parts[3])
       THEN LET d == Num(parts[1])
                m == Num(parts[2])
                y == DigitVal(parts[3][1]) * 1000 + DigitVal(parts[3][2]) * 100
                     + DigitVal(parts[3][3]) * 10 + DigitVal(parts[3][4])
            IN IF y >= 1 /\ m \in 1..12 /\ d >= 1 /\ d <= DaysIn(m, y)
               THEN <<d, m, y>> ELSE <<>>
       ELSE <<>>

\* datetime.now() as <<day, month, year>>
CurrentDate == <<4, 11, 2026>>
DateAfter(a, b) ==
    \/ a[3] > b[3]
    \/ a[3] = b[3] /\ a[2] > b[2]
    \/ a[3] = b[3] /\ a[2] = b[2] /\ a[1] > b[1]

\* _validate_cross_fields: the warnings it appends (it appends no error)
CrossFieldWarnings(record) ==
    LET fecha == Get(record, "fecha", <<>>)
        parsed_date == IF Falsy(fecha) THEN <<>> ELSE StrptimeAny(fecha)
    IN (IF parsed_date # <<>> /\ DateAfter(parsed_date, CurrentDate)
        THEN <<"Fecha en el futuro">> ELSE <<>>)
       \o (IF parsed_date # <<>> /\ parsed_date[3] < 2010
           THEN <<"Fecha muy antigua">> ELSE <<>>)
       \o (IF Contains(Lower(Get(record, "estado", <<>>)),
                       <<"a", "r", "c", "h", "i", "v", "a", "d", "o">>)
              /\ Contains(Lower(Get(record, "titulo", <<>>)),
                          <<"n", "u", "e", "v", "o">>)
           THEN <<"Proyecto archivado pero título sugiere que es nuevo">> ELSE <<>>)

\* The exception _validate_cross_fields lets out ("none": it returns).
\* strptime(fecha, ...) of a truthy non-str raises TypeError, and only
\* ValueError is caught; .lower() of a float raises AttributeError.
cross_fields_exception(record) ==
    IF pd_isna(Get(record, "fecha", <<>>)) THEN "TypeError"
    ELSE IF pd_isna(Get(record, "titulo", <<>>)) \/ pd_isna(Get(record, "estado", <<>>))
         THEN "AttributeError"
    ELSE "none"

\* f"{field_name}: {message}" is the pair [field, text]; a message appended
\* without a field prefix has field ""
Prefixed(field_name, msgs) ==
    [i \in 1..Len(msgs) |-> [field |-> field_name, text |-> msgs[i]]]

RECURSIVE Flatten(_)
Flatten(seqs) == IF seqs = <<>> THEN <<>> ELSE Head(seqs) \o Flatten(Tail(seqs))

\* fields_to_validate: every field under its validator
FieldResults(record) ==
    [proyecto |-> validate_proyecto(Get(record, "proyecto", <<>>)),
     fecha |-> validate_fecha(Get(record, "fecha", <<>>)),
     titulo |-> validate_titulo(Get(record, "titulo", <<>>)),
     estado |-> validate_estado(Get(record, "estado", <<>>)),
     proponente |-> validate_proponente(Get(record, "proponente", <<>>)),
     autores |-> validate_autores(Get(record, "autores", <<>>))]

\* validate_record, after the field loop: res holds each field's result
RecordResult(record, res) ==
    LET errors == Flatten([i \in 1..Len(FieldOrder) |->
                     IF ~res[FieldOrder[i]].is_valid
                     THEN Prefixed(FieldOrder[i], res[FieldOrder[i]].errors)
                     ELSE <<>>])
        warnings == Flatten([i \in 1..Len(FieldOrder) |->
                       Prefixed(FieldOrder[i], res[FieldOrder[i]].warnings)])
                    \o Prefixed("", CrossFieldWarnings(record))
        cleaned_data == [f \in {g \in Fields : res[g].cleaned_data # <<>>} |->
                            res[f].cleaned_data[1]]
    IN ValidationResult(Len(errors) = 0, errors, warnings, cleaned_data)

validate_record(record) == RecordResult(record, FieldResults(record))
\* the exception validate_record lets out for a record of str and NaN values
record_exception(record) == cross_fields_exception(record)

\* validate_record of a row of cleaned_df: five str fields, autores a list
FieldResultsClean(record) ==
    [proyecto |-> validate_proyecto(record.proyecto),
     fecha |-> validate_fecha(record.fecha),
     titulo |-> validate_titulo(record.titulo),
     estado |-> validate_estado(record.estado),
     proponente |-> validate_proponente(record.proponente),
     autores |-> validate_autores_list(record.autores)]
validate_clean_record(record) == RecordResult(record, FieldResultsClean(record))
clean_record_exception(record) ==
    IF autores_list_exception(record.autores) # "none"
    THEN autores_list_exception(record.autores)
    ELSE cross_fields_exception(record)

\* message.split(':')[0]
MessageKey(m) == IF m.field # "" THEN m.field ELSE m.text

CountByKey(msgs) ==
    [k \in {MessageKey(msgs[i]) : i \in 1..Len(msgs)} |->
        Cardinality({i \in 1..Len(msgs) : MessageKey(msgs[i]) = k})]

\* ------------------------------------------------------- scraped test data
\* RawRecord values as _extract_project_data returns them.
Str_proyecto == <<"1", "/", "2", "0", "2", "4", "-", "C", "R">>
Str_fecha == <<"1", "5", "/", "0", "6", "/", "2", "0", "2", "4">>
Str_titulo == <<"L", "e", "y", " ", "d", "e", " ", "S", "a", "l", "u", "d">>
Str_estado == <<"A", "P", "R", "O", "B", "A", "D", "O">>
Str_proponente == <<"C", "O", "N", "G", "R", "E", "S", "O">>
Str_autores == <<"A", "n", "a", " ", "P", ",", " ", "L", "u", "z">>

RecGood ==
    [proyecto |-> Str_proyecto, fecha |-> Str_fecha, titulo |-> Str_titulo,
     estado |-> Str_estado, proponente |-> Str_proponente, autores |-> Str_autores]
\* empty bill id: an error
RecNoId == [RecGood EXCEPT !.proyecto = <<>>]
\* empty authors: a warning only
RecNoAuthors == [RecGood EXCEPT !.autores = <<>>]
\* 31/02/2024: matches the pattern, fails calendar parsing
RecBadDate ==
    [RecGood EXCEPT !.fecha = <<"3", "1", "/", "0", "2", "/", "2", "0", "2", "4">>]

\* the record of tests/test_scraper.py test_data_validation_integration
\* (its title without the blanks around it):
\* bill id and date still carry the labels of their table cells
RecRowA ==
    \* 'Proyecto de Ley 12345/2024-CR'
    [proyecto |-> <<"P", "r", "o", "y", "e", "c", "t", "o", " ", "d", "e",
                    " ", "L", "e", "y", " ", "1", "2", "3", "4", "5", "/",
                    "2", "0", "2", "4", "-", "C", "R">>,
     \* 'Fecha de Presentación15/06/2024'
     fecha |-> <<"F", "e", "c", "h", "a", " ", "d", "e", " ", "P", "r", "e",
                 "s", "e", "n", "t", "a", "c", "i", "ó", "n", "1", "5", "/",
                 "0", "6", "/", "2", "0", "2", "4">>,
     \* 'Ley de Reforma Educativa'
     titulo |-> <<"L", "e", "y", " ", "d", "e", " ", "R", "e", "f", "o", "r",
                  "m", "a", " ", "E", "d", "u", "c", "a", "t", "i", "v",
                  "a">>,
     estado |-> Str_estado, proponente |-> Str_proponente,
     \* 'Juan Pérez - PERU LIBRE'
     autores |-> <<"J", "u", "a", "n", " ", "P", "é", "r", "e", "z", " ",
                   "-", " ", "P", "E", "R", "U", " ", "L", "I", "B", "R",
                   "E">>]
\* no bill id, a one-letter title, no authors
RecRowB ==
    [proyecto |-> <<>>, fecha |-> Str_fecha, titulo |-> <<"x">>,
     estado |-> Str_estado, proponente |-> Str_proponente, autores |-> <<>>]
\* dicts without a key
Without(record, field_name) ==
    [f \in DOMAIN record \ {field_name} |-> record[f]]

\* The rows of a DataFrame given to validate_dataframe
DataframeRecords ==
    <<RecGood, RecNoId, RecNoAuthors, RecBadDate,
      \* empty date, empty title: an error each
      [RecGood EXCEPT !.fecha = <<>>],
      [RecGood EXCEPT !.titulo = <<>>],
      \* every author token of two characters: 'Al, Bo'
      [RecGood EXCEPT !.autores = <<"A", "l", ",", " ", "B", "o">>],
      \* one author token of two characters, one longer: 'Ana P, Bo'
      [RecGood EXCEPT !.autores = <<"A", "n", "a", " ", "P", ",", " ", "B", "o">>],
      \* a date after CurrentDate: '15/06/2027'
      [RecGood EXCEPT !.fecha = <<"1", "5", "/", "0", "6", "/", "2", "0", "2", "7">>],
      \* NaN cells of a DataFrame row
      [RecGood EXCEPT !.fecha = NaN],
      [RecGood EXCEPT !.estado = NaN],
      [RecGood EXCEPT !.autores = NaN],
      [RecGood EXCEPT !.titulo = <<>>, !.estado = NaN],
      RecRowA, RecRowB>>
\* The dicts handed to validate_record directly: those, and dicts without
\* a key
DictRecords ==
    DataframeRecords \o <<Without(RecGood, "titulo"), Without(RecGood, "autores")>>
\* Largest number of rows of a DataFrame
MaxBatch == 2
Batches ==
    UNION {[1..n -> {DataframeRecords[i] : i \in 1..Len(DataframeRecords)}] :
              n \in 0..MaxBatch}

\* A parsed table row whose extraction meets no exception: its number of
\* <td> cells and the text of the cells. In general a row also has li, the
\* texts of the <li> items of its authors cell, exc, what the extraction of
\* the row as a whole does ("ok" or the exception raised), and failed, the
\* fields whose cell raises when its text is read.
Row(cells, data) ==
    [cells |-> cells, data |-> data, li |-> <<>>, exc |-> "ok", failed |-> {}]
\* The row lists a result page may show.
PageContents ==
    {<<Row(5, RecGood), Row(6, RecNoAuthors), Row(7, RecNoId)>>,
     <<Row(6, RecBadDate)>>,
     <<Row(5, RecGood)>>,
     <<>>}

\* The rows a result table may hold.
TableRows ==
    LET \* ' 2/2024-CR ', 'Ley  de\tSalud', 'En comisión'
        messy == [RecGood EXCEPT
                    !.proyecto = <<" ", "2", "/", "2", "0", "2", "4", "-", "C",
                                   "R", " ">>,
                    !.titulo = <<"L", "e", "y", " ", " ", "d", "e", "\t", "S",
                                 "a", "l", "u", "d">>,
                    !.estado = <<"E", "n", " ", "c", "o", "m", "i", "s", "i",
                                 "ó", "n">>]
    IN {Row(6, RecGood),
        \* a row of five cells
        Row(5, RecGood),
        \* cells that carry their labels; the authors as list items
        [Row(7, RecRowA) EXCEPT !.li = <<<<"A", "n", "a", " ", "P", " ">>,
                                         <<"L", "u", "z">>>>],
        Row(6, messy),
        \* a row whose extraction raises
        [Row(6, messy) EXCEPT !.exc = "Exception"],
        \* rows with cells that raise when read
        [Row(6, messy) EXCEPT !.failed = {"titulo"}],
        [Row(6, RecGood) EXCEPT !.failed = {"autores"}],
        [Row(7, RecRowA) EXCEPT !.failed = {"proyecto", "fecha", "estado",
                                            "proponente"}]}

\* ------------------------------------------------------ batch validation
\* validate_record over the records the pages can hold, computed once
KnownRecords == DictRecords
RECURSIVE ValidateEach(_)
ValidateEach(records) ==
    IF records = <<>> THEN <<>>
    ELSE <<validate_record(Head(records))>> \o ValidateEach(Tail(records))
KnownResults == ValidateEach(KnownRecords)

\* result = self.validate_record(record.to_dict())
validate_row(record) ==
    IF \E i \in 1..Len(KnownRecords) : KnownRecords[i] = record
    THEN KnownResults[CHOOSE i \in 1..Len(KnownRecords) : KnownRecords[i] = record]
    ELSE validate_record(record)

\* for idx, record in df.iterrows(): the result of every row
RECURSIVE ValidateRows(_)
ValidateRows(df) ==
    IF df = <<>> THEN <<>>
    ELSE <<validate_row(Head(df))>> \o ValidateRows(Tail(df))

\* the same for the rows of a cleaned_df: the cleaned data of the known
\* records that have no error
KnownCleanRecords ==
    LET valid == SelectSeq(KnownResults, LAMBDA r : r.is_valid)
    IN [i \in 1..Len(valid) |-> valid[i].cleaned_data]
RECURSIVE ValidateEachClean(_)
ValidateEachClean(records) ==
    IF records = <<>> THEN <<>>
    ELSE <<validate_clean_record(Head(records))>> \o ValidateEachClean(Tail(records))
KnownCleanResults == ValidateEachClean(KnownCleanRecords)
validate_clean_row(record) ==
    KnownCleanResults[CHOOSE i \in 1..Len(KnownCleanRecords) :
                          KnownCleanRecords[i] = record]
RECURSIVE ValidateCleanRows(_)
ValidateCleanRows(df) ==
    IF df = <<>> THEN <<>>
    ELSE <<validate_clean_row(Head(df))>> \o ValidateCleanRows(Tail(df))

\* Rows validated before validate_record raises: all of them when none does.
\* exceptions holds what validate_record lets out for each row.
RowsBeforeRaise(exceptions) ==
    LET raising == {i \in 1..Len(exceptions) : exceptions[i] # "none"}
    IN IF raising = {} THEN Len(exceptions) ELSE SetMin(raising) - 1

\* validation_report before the row loop, for no rows
EmptyReport ==
    [total_records |-> 0, valid_records |-> 0, invalid_records |-> 0,
     total_errors |-> 0, total_warnings |-> 0,
     field_errors |-> <<>>, field_warnings |-> <<>>]

\* validate_dataframe, after the row loop: results holds each row's result
DataframeResult(df, results, valid_results, all_errors, all_warnings) ==
    [cleaned_df |-> [i \in 1..Len(valid_results) |-> valid_results[i].cleaned_data],
     validation_report |->
        [total_records |-> Len(df),
         valid_records |-> Len(valid_results),
         invalid_records |-> Len(df) - Len(valid_results),
         total_errors |-> Len(all_errors),
         total_warnings |-> Len(all_warnings),
         field_errors |-> CountByKey(all_errors),
         field_warnings |-> CountByKey(all_warnings)]]

RowsResult(df, results) ==
    DataframeResult(df, results,
                    SelectSeq(results, LAMBDA r : r.is_valid),
                    Flatten([i \in 1..Len(df) |-> results[i].errors]),
                    Flatten([i \in 1..Len(df) |-> results[i].warnings]))

validate_dataframe(df) == RowsResult(df, ValidateRows(df))

\* ------------------------------------------------- DataCleaner (limpieza.py)
\* DataCleaner.partidos_politicos, in declaration order
partidos_politicos ==
    <<
     \* FREPAP: Frente Popular Agrícola del Perú
     [partido |-> <<"F", "R", "E", "P", "A", "P">>,
      variantes |->
        <<<<"F", "r", "e", "n", "t", "e", " ", "P", "o", "p", "u", "l", "a",
            "r", " ", "A", "g", "r", "í", "c", "o", "l", "a", " ", "d", "e",
            "l", " ", "P", "e", "r", "ú">>>>],
     \* PERU LIBRE: Perú Libre, Perú Libre - Partido Nacionalista
     [partido |-> <<"P", "E", "R", "U", " ", "L", "I", "B", "R", "E">>,
      variantes |->
        <<<<"P", "e", "r", "ú", " ", "L", "i", "b", "r", "e">>,
          <<"P", "e", "r", "ú", " ", "L", "i", "b", "r", "e", " ", "-", " ",
            "P", "a", "r", "t", "i", "d", "o", " ", "N", "a", "c", "i", "o",
            "n", "a", "l", "i", "s", "t", "a">>>>],
     \* FUERZA POPULAR: Fuerza Popular, FP
     [partido |-> <<"F", "U", "E", "R", "Z", "A", " ", "P", "O", "P", "U",
                    "L", "A", "R">>,
      variantes |->
        <<<<"F", "u", "e", "r", "z", "a", " ", "P", "o", "p", "u", "l", "a",
            "r">>,
          <<"F", "P">>>>],
     \* ACCION POPULAR: Acción Popular, AP
     [partido |-> <<"A", "C", "C", "I", "O", "N", " ", "P", "O", "P", "U",
                    "L", "A", "R">>,
      variantes |->
        <<<<"A", "c", "c", "i", "ó", "n", " ", "P", "o", "p", "u", "l", "a",
            "r">>,
          <<"A", "P">>>>],
     \* ALIANZA PARA EL PROGRESO: Alianza para el Progreso, APP
     [partido |-> <<"A", "L", "I", "A", "N", "Z", "A", " ", "P", "A", "R",
                    "A", " ", "E", "L", " ", "P", "R", "O", "G", "R", "E",
                    "S", "O">>,
      variantes |->
        <<<<"A", "l", "i", "a", "n", "z", "a", " ", "p", "a", "r", "a", " ",
            "e", "l", " ", "P", "r", "o", "g", "r", "e", "s", "o">>,
          <<"A", "P", "P">>>>],
     \* PODEMOS PERU: Podemos Perú, Podemos
     [partido |-> <<"P", "O", "D", "E", "M", "O", "S", " ", "P", "E", "R",
                    "U">>,
      variantes |->
        <<<<"P", "o", "d", "e", "m", "o", "s", " ", "P", "e", "r", "ú">>,
          <<"P", "o", "d", "e", "m", "o", "s">>>>],
     \* AVANZA PAIS: Avanza País, Avanza
     [partido |-> <<"A", "V", "A", "N", "Z", "A", " ", "P", "A", "I", "S">>,
      variantes |->
        <<<<"A", "v", "a", "n", "z", "a", " ", "P", "a", "í", "s">>,
          <<"A", "v", "a", "n", "z", "a">>>>],
     \* RENOVACION POPULAR: Renovación Popular, RP
     [partido |-> <<"R", "E", "N", "O", "V", "A", "C", "I", "O", "N", " ",
                    "P", "O", "P", "U", "L", "A", "R">>,
      variantes |->
        <<<<"R", "e", "n", "o", "v", "a", "c", "i", "ó", "n", " ", "P", "o",
            "p", "u", "l", "a", "r">>,
          <<"R", "P">>>>],
     \* SOMOS PERU: Somos Perú, Somos
     [partido |-> <<"S", "O", "M", "O", "S", " ", "P", "E", "R", "U">>,
      variantes |->
        <<<<"S", "o", "m", "o", "s", " ", "P", "e", "r", "ú">>,
          <<"S", "o", "m", "o", "s">>>>],
     \* UNION POR EL PERU: Unión por el Perú, UPP
     [partido |-> <<"U", "N", "I", "O", "N", " ", "P", "O", "R", " ", "E",
                    "L", " ", "P", "E", "R", "U">>,
      variantes |->
        <<<<"U", "n", "i", "ó", "n", " ", "p", "o", "r", " ", "e", "l", " ",
            "P", "e", "r", "ú">>,
          <<"U", "P", "P">>>>],
     \* PARTIDO MORADO: Partido Morado, Morado
     [partido |-> <<"P", "A", "R", "T", "I", "D", "O", " ", "M", "O", "R",
                    "A", "D", "O">>,
      variantes |->
        <<<<"P", "a", "r", "t", "i", "d", "o", " ", "M", "o", "r", "a", "d",
            "o">>,
          <<"M", "o", "r", "a", "d", "o">>>>],
     \* JUNTOS POR EL PERU: Juntos por el Perú, JPP
     [partido |-> <<"J", "U", "N", "T", "O", "S", " ", "P", "O", "R", " ",
                    "E", "L", " ", "P", "E", "R", "U">>,
      variantes |->
        <<<<"J", "u", "n", "t", "o", "s", " ", "p", "o", "r", " ", "e", "l",
            " ", "P", "e", "r", "ú">>,
          <<"J", "P", "P">>>>],
     \* FRENTE AMPLIO: Frente Amplio, FA
     [partido |-> <<"F", "R", "E", "N", "T", "E", " ", "A", "M", "P", "L",
                    "I", "O">>,
      variantes |->
        <<<<"F", "r", "e", "n", "t", "e", " ", "A", "m", "p", "l", "i", "o">>,
          <<"F", "A">>>>],
     \* CONFIEP: Confederación Nacional de Instituciones Empresariales Privadas
     [partido |-> <<"C", "O", "N", "F", "I", "E", "P">>,
      variantes |->
        <<<<"C", "o", "n", "f", "e", "d", "e", "r", "a", "c", "i", "ó", "n",
            " ", "N", "a", "c", "i", "o", "n", "a", "l", " ", "d", "e", " ",
            "I", "n", "s", "t", "i", "t", "u", "c", "i", "o", "n", "e", "s",
            " ", "E", "m", "p", "r", "e", "s", "a", "r", "i", "a", "l", "e",
            "s", " ", "P", "r", "i", "v", "a", "d", "a", "s">>>>],
     \* INDEPENDIENTE: Independiente, Independientes
     [partido |-> <<"I", "N", "D", "E", "P", "E", "N", "D", "I", "E", "N",
                    "T", "E">>,
      variantes |->
        <<<<"I", "n", "d", "e", "p", "e", "n", "d", "i", "e", "n", "t", "e">>,
          <<"I", "n", "d", "e", "p", "e", "n", "d", "i", "e", "n", "t", "e",
            "s">>>>]
    >>

\* categorias of clasificar_tipo_proyecto, in declaration order
categorias ==
    <<
     \* EDUCACION: EDUCACIÓN, EDUCATIVO, UNIVERSIDAD, INSTITUTO, COLEGIO, ESCUELA, ESTUDIANTE
     [categoria |-> <<"E", "D", "U", "C", "A", "C", "I", "O", "N">>,
      palabras |->
        <<<<"E", "D", "U", "C", "A", "C", "I", "Ó", "N">>,
          <<"E", "D", "U", "C", "A", "T", "I", "V", "O">>,
          <<"U", "N", "I", "V", "E", "R", "S", "I", "D", "A", "D">>,
          <<"I", "N", "S", "T", "I", "T", "U", "T", "O">>,
          <<"C", "O", "L", "E", "G", "I", "O">>,
          <<"E", "S", "C", "U", "E", "L", "A">>,
          <<"E", "S", "T", "U", "D", "I", "A", "N", "T", "E">>>>],
     \* SALUD: SALUD, MÉDICO, HOSPITAL, MEDICINA, ENFERMO, PACIENTE, SANITARIO
     [categoria |-> <<"S", "A", "L", "U", "D">>,
      palabras |->
        <<<<"S", "A", "L", "U", "D">>,
          <<"M", "É", "D", "I", "C", "O">>,
          <<"H", "O", "S", "P", "I", "T", "A", "L">>,
          <<"M", "E", "D", "I", "C", "I", "N", "A">>,
          <<"E", "N", "F", "E", "R", "M", "O">>,
          <<"P", "A", "C", "I", "E", "N", "T", "E">>,
          <<"S", "A", "N", "I", "T", "A", "R", "I", "O">>>>],
     \* TRABAJO: TRABAJO, TRABAJADOR, EMPLEO, LABORAL, SALARIO, SUELDO, RÉGIMEN LABORAL
     [categoria |-> <<"T", "R", "A", "B", "A", "J", "O">>,
      palabras |->
        <<<<"T", "R", "A", "B", "A", "J", "O">>,
          <<"T", "R", "A", "B", "A", "J", "A", "D", "O", "R">>,
          <<"E", "M", "P", "L", "E", "O">>,
          <<"L", "A", "B", "O", "R", "A", "L">>,
          <<"S", "A", "L", "A", "R", "I", "O">>,
          <<"S", "U", "E", "L", "D", "O">>,
          <<"R", "É", "G", "I", "M", "E", "N", " ", "L", "A", "B", "O", "R",
            "A", "L">>>>],
     \* ECONOMIA: ECONÓMICO, ECONOMÍA, FINANCIERO, PRESUPUESTO, INVERSIÓN, DESARROLLO ECONÓMICO
     [categoria |-> <<"E", "C", "O", "N", "O", "M", "I", "A">>,
      palabras |->
        <<<<"E", "C", "O", "N", "Ó", "M", "I", "C", "O">>,
          <<"E", "C", "O", "N", "O", "M", "Í", "A">>,
          <<"F", "I", "N", "A", "N", "C", "I", "E", "R", "O">>,
          <<"P", "R", "E", "S", "U", "P", "U", "E", "S", "T", "O">>,
          <<"I", "N", "V", "E", "R", "S", "I", "Ó", "N">>,
          <<"D", "E", "S", "A", "R", "R", "O", "L", "L", "O", " ", "E", "C",
            "O", "N", "Ó", "M", "I", "C", "O">>>>],
     \* INFRAESTRUCTURA: CARRETERA, PUENTE, CONSTRUCCIÓN, OBRA, INFRAESTRUCTURA, RUTA
     [categoria |-> <<"I", "N", "F", "R", "A", "E", "S", "T", "R", "U", "C",
                      "T", "U", "R", "A">>,
      palabras |->
        <<<<"C", "A", "R", "R", "E", "T", "E", "R", "A">>,
          <<"P", "U", "E", "N", "T", "E">>,
          <<"C", "O", "N", "S", "T", "R", "U", "C", "C", "I", "Ó", "N">>,
          <<"O", "B", "R", "A">>,
          <<"I", "N", "F", "R", "A", "E", "S", "T", "R", "U", "C", "T", "U",
            "R", "A">>,
          <<"R", "U", "T", "A">>>>],
     \* CULTURA: CULTURAL, PATRIMONIO, CULTURA, TRADICIÓN, FESTIVIDAD, ARTE
     [categoria |-> <<"C", "U", "L", "T", "U", "R", "A">>,
      palabras |->
        <<<<"C", "U", "L", "T", "U", "R", "A", "L">>,
          <<"P", "A", "T", "R", "I", "M", "O", "N", "I", "O">>,
          <<"C", "U", "L", "T", "U", "R", "A">>,
          <<"T", "R", "A", "D", "I", "C", "I", "Ó", "N">>,
          <<"F", "E", "S", "T", "I", "V", "I", "D", "A", "D">>,
          <<"A", "R", "T", "E">>>>],
     \* AMBIENTE: AMBIENTAL, MEDIO AMBIENTE, CONTAMINACIÓN, ECOLOGÍA, NATURALEZA
     [categoria |-> <<"A", "M", "B", "I", "E", "N", "T", "E">>,
      palabras |->
        <<<<"A", "M", "B", "I", "E", "N", "T", "A", "L">>,
          <<"M", "E", "D", "I", "O", " ", "A", "M", "B", "I", "E", "N", "T",
            "E">>,
          <<"C", "O", "N", "T", "A", "M", "I", "N", "A", "C", "I", "Ó", "N">>,
          <<"E", "C", "O", "L", "O", "G", "Í", "A">>,
          <<"N", "A", "T", "U", "R", "A", "L", "E", "Z", "A">>>>],
     \* SEGURIDAD: SEGURIDAD, POLICÍA, DEFENSA, CRIMEN, DELITO, JUSTICIA
     [categoria |-> <<"S", "E", "G", "U", "R", "I", "D", "A", "D">>,
      palabras |->
        <<<<"S", "E", "G", "U", "R", "I", "D", "A", "D">>,
          <<"P", "O", "L", "I", "C", "Í", "A">>,
          <<"D", "E", "F", "E", "N", "S", "A">>,
          <<"C", "R", "I", "M", "E", "N">>,
          <<"D", "E", "L", "I", "T", "O">>,
          <<"J", "U", "S", "T", "I", "C", "I", "A">>>>],
     \* SOCIAL: SOCIAL, POBREZA, VULNERABLE, DISCAPACIDAD, ADULTO MAYOR, NIÑO
     [categoria |-> <<"S", "O", "C", "I", "A", "L">>,
      palabras |->
        <<<<"S", "O", "C", "I", "A", "L">>,
          <<"P", "O", "B", "R", "E", "Z", "A">>,
          <<"V", "U", "L", "N", "E", "R", "A", "B", "L", "E">>,
          <<"D", "I", "S", "C", "A", "P", "A", "C", "I", "D", "A", "D">>,
          <<"A", "D", "U", "L", "T", "O", " ", "M", "A", "Y", "O", "R">>,
          <<"N", "I", "Ñ", "O">>>>],
     \* ADMINISTRATIVO: ADMINISTRATIVO, FUNCIONARIO, SERVIDOR PÚBLICO, RÉGIMEN, NOMBRAMIENTO
     [categoria |-> <<"A", "D", "M", "I", "N", "I", "S", "T", "R", "A", "T",
                      "I", "V", "O">>,
      palabras |->
        <<<<"A", "D", "M", "I", "N", "I", "S", "T", "R", "A", "T", "I", "V",
            "O">>,
          <<"F", "U", "N", "C", "I", "O", "N", "A", "R", "I", "O">>,
          <<"S", "E", "R", "V", "I", "D", "O", "R", " ", "P", "Ú", "B", "L",
            "I", "C", "O">>,
          <<"R", "É", "G", "I", "M", "E", "N">>,
          <<"N", "O", "M", "B", "R", "A", "M", "I", "E", "N", "T", "O">>>>]
    >>

\* The authors texts given to the cleaner
CleanerAutores ==
    <<
     \* 'Juan Pérez - PERU LIBRE' (tests/test_scraper.py)
     <<"J", "u", "a", "n", " ", "P", "é", "r", "e", "z", " ", "-", " ", "P",
       "E", "R", "U", " ", "L", "I", "B", "R", "E">>,
     \* 'Juan Pérez - Partido Desconocido' (tests/test_scraper.py)
     <<"J", "u", "a", "n", " ", "P", "é", "r", "e", "z", " ", "-", " ", "P",
       "a", "r", "t", "i", "d", "o", " ", "D", "e", "s", "c", "o", "n", "o",
       "c", "i", "d", "o">>,
     \* 'Ana P - Perú Libre': a variant as the table spells it
     <<"A", "n", "a", " ", "P", " ", "-", " ", "P", "e", "r", "ú", " ", "L",
       "i", "b", "r", "e">>,
     \* 'Luz - Fuerza Popular, Podemos': two parties
     <<"L", "u", "z", " ", "-", " ", "F", "u", "e", "r", "z", "a", " ", "P",
       "o", "p", "u", "l", "a", "r", ",", " ", "P", "o", "d", "e", "m", "o",
       "s">>,
     \* 'Luz - Independientes'
     <<"L", "u", "z", " ", "-", " ", "I", "n", "d", "e", "p", "e", "n", "d",
       "i", "e", "n", "t", "e", "s">>,
     \* 'Rafael Soto': no party named
     <<"R", "a", "f", "a", "e", "l", " ", "S", "o", "t", "o">>,
     \* ''
     <<>>,
     \* a missing cell
     NaN
    >>

\* The titles given to the cleaner
CleanerTitulos ==
    <<
     \* 'Ley de Reforma Educativa' (tests/test_scraper.py)
     <<"L", "e", "y", " ", "d", "e", " ", "R", "e", "f", "o", "r", "m", "a",
       " ", "E", "d", "u", "c", "a", "t", "i", "v", "a">>,
     \* 'Ley de Salud Pública' (tests/test_scraper.py)
     <<"L", "e", "y", " ", "d", "e", " ", "S", "a", "l", "u", "d", " ", "P",
       "ú", "b", "l", "i", "c", "a">>,
     \* 'Ley Misteriosa' (tests/test_scraper.py)
     <<"L", "e", "y", " ", "M", "i", "s", "t", "e", "r", "i", "o", "s", "a">>,
     \* 'Ley de Educación y Salud': two categories
     <<"L", "e", "y", " ", "d", "e", " ", "E", "d", "u", "c", "a", "c", "i",
       "ó", "n", " ", "y", " ", "S", "a", "l", "u", "d">>,
     \* '  Ley  del Arte! ': blanks and a character limpiar_titulo removes
     <<" ", " ", "L", "e", "y", " ", " ", "d", "e", "l", " ", "A", "r", "t",
       "e", "!", " ">>,
     \* '¡Sal!ud': a keyword only once limpiar_titulo has removed characters
     <<"¡", "S", "a", "l", "!", "u", "d">>,
     \* ''
     <<>>,
     \* a missing cell
     NaN
    >>

\* the sentinel values the classifiers return
DESCONOCIDO == <<"D", "E", "S", "C", "O", "N", "O", "C", "I", "D", "O">>
OTROS == <<"O", "T", "R", "O", "S">>

\* limpiar_titulo: '' for a missing title; else strip, every run of
\* whitespace made one blank, then every character outside
\* [\w\s.,;:()\-áéíóúñüÁÉÍÓÚÑÜ] removed
limpiar_titulo(titulo_str) ==
    IF pd_isna(titulo_str) \/ Falsy(titulo_str) THEN <<>>
    ELSE LET titulo == Strip(titulo_str)
             one_blank == SelectSeq([i \in 1..Len(titulo) |->
                                        IF ~IsSpace(titulo[i]) THEN <<titulo[i]>>
                                        ELSE IF IsSpace(titulo[i - 1]) THEN <<>>
                                        ELSE <<" ">>],
                                    LAMBDA c : c # <<>>)
             Kept(c) == \/ \E j \in 1..Len(LowerChars) : c \in {LowerChars[j], UpperChars[j]}
                        \/ IsDigit(c) \/ IsSpace(c)
                        \/ c \in {"_", ".", ",", ";", ":", "(", ")", "-", "ü", "Ü"}
         IN SelectSeq([i \in 1..Len(one_blank) |-> one_blank[i][1]], Kept)

\* extraer_partido_politico: None (<<>>) for a missing authors text; else
\* the party of the first table entry one of whose variants, upper-cased,
\* occurs in the upper-cased text; else INDEPENDIENTE or DESCONOCIDO
extraer_partido_politico(autores_str) ==
    IF pd_isna(autores_str) \/ Falsy(autores_str) THEN <<>>
    ELSE LET autores_upper == Upper(autores_str)
             found == {i \in 1..Len(partidos_politicos) :
                          \E j \in 1..Len(partidos_politicos[i].variantes) :
                              Contains(autores_upper,
                                       Upper(partidos_politicos[i].variantes[j]))}
         IN IF found # {} THEN <<partidos_politicos[SetMin(found)].partido>>
            ELSE IF Contains(autores_upper, partidos_politicos[15].partido)
                 THEN <<partidos_politicos[15].partido>>
            ELSE <<DESCONOCIDO>>

\* clasificar_tipo_proyecto: DESCONOCIDO for a missing title; else the first
\* category one of whose keywords occurs in the upper-cased title; else OTROS
clasificar_tipo_proyecto(titulo) ==
    IF pd_isna(titulo) \/ Falsy(titulo) THEN DESCONOCIDO
    ELSE LET titulo_upper == Upper(titulo)
             found == {i \in 1..Len(categorias) :
                          \E j \in 1..Len(categorias[i].palabras) :
                              Contains(titulo_upper, categorias[i].palabras[j])}
         IN IF found # {} THEN categorias[SetMin(found)].categoria ELSE OTROS

\* limpiar_dataframe, the columns partido_politico and tipo_proyecto of one
\* row: the party from autores, the category from titulo_limpio
limpiar_dataframe(record) ==
    [partido_politico |-> extraer_partido_politico(record.autores),
     tipo_proyecto |-> <<clasificar_tipo_proyecto(limpiar_titulo(record.titulo))>>]

\* ------------------------------------------------------------- exceptions
\* What a browser or library call does: it returns ("ok") or raises.
ExcKinds ==
    {"TimeoutException", "NoSuchElementException",
     "ElementClickInterceptedException", "StaleElementReferenceException",
     "WebDriverException", "Exception"}
CallOutcomes == {"ok"} \cup ExcKinds

\* isinstance(e, cls): the selenium exceptions derive from WebDriverException
IsInstance(e, cls) ==
    CASE cls = "Exception" -> e \in ExcKinds
      [] cls = "WebDriverException" -> e \in ExcKinds \ {"Exception"}
      [] OTHER -> e = cls

\* ---------------------------------------------------------- configuration
\* self.stats[...] = None
TimeNone == 0
\* env.scraping.retry_delay, in seconds (its default)
retry_delay == 2
\* the three XPath alternatives of each interactive step
NumSelectors == 3
\* a row with fewer <td> cells yields no record
MinCells == 6

\* Most threading.Thread objects one PerformanceMonitor creates.
MaxStarts == 2
\* Samples metrics_history keeps (1000 in the source).
MaxHistory == 2

\* ------------------------------------------------------------------ state
VARIABLES
    max_pages,          \* env.scraping.max_pages
    max_retries,        \* self.max_retries
    stats,              \* self.stats
    clock,              \* the value the next datetime.now() returns
    monitoring_active,  \* performance_monitor.monitoring_active
    pc,                 \* where the running scrape() call is ("idle": no call)
    run,                \* scrape() calls started on this instance
    sel,                \* index of the selector being tried
    attempt,            \* loop variable of the running retry loop
    clickLog,           \* what each attempt of a directly called _safe_click did
    clickRet,           \* what that _safe_click returned ("none": not yet)
    page_num,           \* _scrape_all_pages: page_num
    all_proyectos,      \* _scrape_all_pages: all_proyectos
    browserPage,        \* result page this call has brought the browser to (0: none)
    siteOpened,         \* driver.get(base_url) was issued in this call
    result,             \* the list the last call returned
    outcome,            \* "none", "running", "returned" or "raised"
    steps,              \* the steps this call has entered, in order
    failedStep,         \* the step of this call that returned False
    statsAtStart,       \* self.stats when this call began
    validation,         \* "not_run", "ok" or "raised"
    pageExc,            \* exception met while processing a page of this call
    pageLog,            \* the records extracted from each page of this call
    noNextAt,           \* page on which _has_next_page returned False
    nextFailedAt,       \* page on which _go_to_next_page returned False
    capClick,           \* next was clicked with max_pages pages extracted
    retriesMade,        \* passes after the first of _safe_navigate and _safe_click
                        \* in this call
    vop,                \* the validator method called last ("none": none yet)
    df,                 \* the rows given to that call (one for validate_record)
    vpass,              \* validate_dataframe calls made so far
    vcall,              \* "none", "returned", or the exception the call raised
    vresults,           \* the ValidationResult of every row the call validated
    df_clean,           \* validate_dataframe: the cleaned_df returned
    validation_report,  \* validate_dataframe: the validation_report returned
    cleaner_op,         \* the DataCleaner method called last ("none": none yet)
    cleaner_in,         \* the autores and titulo given to that call
    cleaner_out,        \* what it returned: partido_politico and tipo_proyecto,
                        \* each <<>> (None or not computed) or <<value>>
    threads,            \* where each _monitor_loop thread is: "unborn", "test",
                        \* "body", "sleep" or "exited"
    monitor_thread,     \* performance_monitor.monitor_thread (0: None)
    stop_pc,            \* "joining" while stop_monitoring() waits in join
    metrics_history,    \* performance_monitor.metrics_history: for each
                        \* kept sample, the thread that appended it
    sleepLog,           \* the seconds of each time.sleep between the attempts
                        \* of the retry loop that ran last in this call
    page_rows,          \* _scrape_current_page called on its own: rows
    page_proyectos      \* the list that call returned

vars == <<max_pages, max_retries, stats, clock, monitoring_active, pc, run, sel,
          attempt, clickLog, clickRet, page_num, all_proyectos, browserPage,
          siteOpened, result, outcome, steps, failedStep, statsAtStart,
          validation, pageExc, pageLog, noNextAt, nextFailedAt, capClick,
          retriesMade, vop, df, vpass, vcall, vresults, df_clean,
          validation_report, cleaner_op, cleaner_in, cleaner_out, threads,
          monitor_thread, stop_pc, metrics_history, sleepLog, page_rows,
          page_proyectos>>

config == <<max_pages, max_retries>>
clickVars == <<attempt, clickLog, clickRet>>
validatorVars == <<vop, df, vpass, vcall, vresults, df_clean, validation_report>>
cleanerVars == <<cleaner_op, cleaner_in, cleaner_out>>
\* the state of the utils objects the scraper does not touch
monitorVars == <<threads, monitor_thread, stop_pc, metrics_history>>
rowVars == <<page_rows, page_proyectos>>
utilVars == <<validatorVars, cleanerVars, monitorVars, rowVars>>
\* everything but the PerformanceMonitor
nonMonitorVars == <<max_pages, max_retries, stats, clock, pc, run, sel, attempt,
                    clickLog, clickRet, page_num, all_proyectos, browserPage,
                    siteOpened, result, outcome, steps, failedStep,
                    statsAtStart, validation, pageExc, pageLog, noNextAt,
                    nextFailedAt, capClick, retriesMade, sleepLog, validatorVars,
                    cleanerVars, rowVars>>
scraperVars == <<max_pages, max_retries, stats, clock, monitoring_active, pc, run,
                 sel, attempt, clickLog, clickRet, page_num, all_proyectos,
                 browserPage, siteOpened, result, outcome, steps, failedStep,
                 statsAtStart, validation, pageExc, pageLog, noNextAt,
                 nextFailedAt, capClick, retriesMade, sleepLog>>
pageVars == <<page_num, all_proyectos, pageLog, pageExc, noNextAt, nextFailedAt>>

Init ==
    /\ max_pages \in 1..MaxPagesBound
    /\ max_retries \in 1..MaxRetriesBound
    /\ stats = [pages_scraped |-> 0, projects_found |-> 0,
                errors_encountered |-> 0, retries_performed |-> 0,
                start_time |-> TimeNone, end_time |-> TimeNone]
    /\ clock = 1
    /\ monitoring_active = FALSE
    /\ pc = "idle"
    /\ run = 0
    /\ sel = 0
    /\ attempt = 0
    /\ clickLog = <<>>
    /\ clickRet = "none"
    /\ page_num = 0
    /\ all_proyectos = <<>>
    /\ browserPage = 0
    /\ siteOpened = FALSE
    /\ result = <<>>
    /\ outcome = "none"
    /\ steps = <<>>
    /\ failedStep = ""
    /\ statsAtStart = stats
    /\ validation = "not_run"
    /\ pageExc = "none"
    /\ pageLog = <<>>
    /\ noNextAt = 0
    /\ nextFailedAt = 0
    /\ capClick = FALSE
    /\ retriesMade = 0
    /\ vop = "none"
    /\ df = <<>>
    /\ vpass = 0
    /\ vcall = "none"
    /\ vresults = <<>>
    /\ df_clean = <<>>
    /\ validation_report = EmptyReport
    /\ cleaner_op = "none"
    /\ cleaner_in = [autores |-> <<>>, titulo |-> <<>>]
    /\ cleaner_out = [partido_politico |-> <<>>, tipo_proyecto |-> <<>>]
    /\ threads = [t \in 1..MaxStarts |-> "unborn"]
    /\ monitor_thread = 0
    /\ stop_pc = "idle"
    /\ metrics_history = <<>>
    /\ sleepLog = <<>>
    /\ page_rows = <<>>
    /\ page_proyectos = <<>>

\* ------------------------------------------------- helpers of the scraper
\* _check_connection: True only for a 200 answer; any exception gives False
check_connection(resp) == resp = "200"

\* One pass of the loop of _safe_navigate over driver.get's outcome o:
\* "return_true", "retry" (next pass) or "return_false"
safe_navigate_step(o, att, mr) ==
    IF o = "ok" THEN "return_true"
    ELSE IF IsInstance(o, "TimeoutException") \/ IsInstance(o, "WebDriverException")
         THEN (IF att + 1 < mr THEN "retry" ELSE "return_false")
         ELSE "return_false"

\* _wait_for_page_load catches TimeoutException only
wait_for_page_load_catches(e) == IsInstance(e, "TimeoutException")

\* _safe_find_element: the element, or None on any exception
safe_find_element(o) == o = "ok"

\* The loop of _safe_click with one pass more than range(self.max_retries)
safe_click_step_ExtraPass(o, att, mr) ==
    IF o = "ok" THEN "return_true"
    ELSE IF IsInstance(o, "ElementClickInterceptedException")
            \/ IsInstance(o, "StaleElementReferenceException")
         THEN (IF att < mr THEN "retry" ELSE "return_false")
         ELSE "return_false"

\* The loop of _safe_click retrying after any exception of the attempt
safe_click_step_RetryAny(o, att, mr) ==
    IF o = "ok" THEN "return_true"
    ELSE IF att + 1 < mr THEN "retry" ELSE "return_false"

\* One pass of the loop of _safe_click over the click's outcome o
safe_click_step(o, att, mr) ==
    IF o = "ok" THEN "return_true"
    ELSE IF IsInstance(o, "ElementClickInterceptedException")
            \/ IsInstance(o, "StaleElementReferenceException")
         THEN (IF att + 1 < mr THEN "retry" ELSE "return_false")
         ELSE "return_false"

\* _safe_input: False on any exception
safe_input(o) == o = "ok"

\* where the longest run of positions of the set class that begins at i
\* ends (i - 1 when i is not in class): a greedy + of re over a character
\* class, class holding the positions of the string whose character is in it
RunEnd(class, i) ==
    SetMax({i - 1} \cup {j \in class : j >= i /\ \A k \in i..j : k \in class})

\* _clean_proyecto: group 1 of re.search(r'(\d+/\d{4}-\w+)', proyecto), the
\* leftmost match; proyecto.strip() without a match; "" for ""
clean_proyecto(proyecto) ==
    LET n == Len(proyecto)
        IsWord(c) == \/ IsDigit(c) \/ c = "_"
                     \/ \E j \in 1..Len(LowerChars) :
                           c \in {LowerChars[j], UpperChars[j]}
        \* the end of the match that begins at i, 0 when none does
        MatchEnd(i) ==
            LET j == RunEnd({k \in 1..n : IsDigit(proyecto[k])}, i)
            IN IF /\ j >= i /\ j + 7 <= n
                  /\ proyecto[j + 1] = "/"
                  /\ \A k \in (j + 2)..(j + 5) : IsDigit(proyecto[k])
                  /\ proyecto[j + 6] = "-"
                  /\ IsWord(proyecto[j + 7])
               THEN RunEnd({k \in 1..n : IsWord(proyecto[k])}, j + 7) ELSE 0
        starts == {i \in 1..n : MatchEnd(i) > 0}
    IN IF Falsy(proyecto) THEN <<>>
       ELSE IF starts # {}
            THEN SubSeq(proyecto, SetMin(starts), MatchEnd(SetMin(starts)))
            ELSE Strip(proyecto)

\* _clean_fecha: group 1 of re.search(r'(\d{2}/\d{2}/\d{4})', fecha), the
\* leftmost match; fecha.strip() without a match; "" for ""
clean_fecha(fecha) ==
    LET starts == {i \in 1..(Len(fecha) - 9) : MatchFecha(SubSeq(fecha, i, i + 9))}
    IN IF Falsy(fecha) THEN <<>>
       ELSE IF starts # {} THEN SubSeq(fecha, SetMin(starts), SetMin(starts) + 9)
            ELSE Strip(fecha)

\* _clean_titulo: re.sub(r'\s+', ' ', titulo.strip()); "" for ""
clean_titulo(titulo) ==
    LET t == Strip(titulo)
    IN IF Falsy(titulo) THEN <<>>
       ELSE Flatten([i \in 1..Len(t) |->
                       IF ~IsSpace(t[i]) THEN <<t[i]>>
                       ELSE IF IsSpace(t[i - 1]) THEN <<>>
                       ELSE <<" ">>])

\* _clean_estado: group 1 of re.search(r'([A-ZÁÉÍÓÚÑ\s]+)', estado), the
\* leftmost run of capitals and whitespace, stripped; estado.strip() without
\* a match; "" for ""
clean_estado(estado) ==
    LET InClass(c) == MatchUpperSpace(<<c>>)
        starts == {i \in 1..Len(estado) : InClass(estado[i])}
    IN IF Falsy(estado) THEN <<>>
       ELSE IF starts # {}
            THEN Strip(SubSeq(estado, SetMin(starts),
                              RunEnd(starts, SetMin(starts))))
            ELSE Strip(estado)

\* _clean_proponente: the same search on proponente
clean_proponente(proponente) ==
    LET InClass(c) == MatchUpperSpace(<<c>>)
        starts == {i \in 1..Len(proponente) : InClass(proponente[i])}
    IN IF Falsy(proponente) THEN <<>>
       ELSE IF starts # {}
            THEN Strip(SubSeq(proponente, SetMin(starts),
                              RunEnd(starts, SetMin(starts))))
            ELSE Strip(proponente)

\* A cell extraction that lets the text of the cell through when reading
\* the cell raised
extract_text_safe_KeepsText(text, o) == Strip(text)

\* _extract_text_safe on a cell whose text is text, reading it doing o:
\* get_text(strip=True), "" on any exception
extract_text_safe(text, o) ==
    IF o # "ok" THEN <<>> ELSE Strip(text)

\* _extract_authors_safe: the <li> texts joined with ", " when the cell has
\* list items, else the text of the cell; "" on any exception
extract_authors_safe(text, li, o) ==
    IF o # "ok" THEN <<>>
    ELSE IF li # <<>>
         THEN Flatten([i \in 1..Len(li) |->
                         (IF i = 1 THEN <<>> ELSE <<",", " ">>) \o Strip(li[i])])
         ELSE Strip(text)

\* _extract_project_data: the record of a row; None (<<>>) under 6 cells
\* and when anything raises outside the reading of a single cell
extract_project_data(row) ==
    LET o(f) == IF f \in row.failed THEN "Exception" ELSE "ok"
    IN IF row.exc # "ok" \/ row.cells < MinCells THEN <<>>
       ELSE <<[proyecto |-> clean_proyecto(
                               extract_text_safe(row.data.proyecto, o("proyecto"))),
               fecha |-> clean_fecha(
                               extract_text_safe(row.data.fecha, o("fecha"))),
               titulo |-> clean_titulo(
                               extract_text_safe(row.data.titulo, o("titulo"))),
               estado |-> clean_estado(
                               extract_text_safe(row.data.estado, o("estado"))),
               proponente |-> clean_proponente(
                               extract_text_safe(row.data.proponente,
                                                 o("proponente"))),
               autores |-> extract_authors_safe(row.data.autores, row.li,
                                                o("autores"))]>>

\* _extract_project_data over the rows the pages can hold, computed once
KnownExtracted ==
    [r \in TableRows \cup UNION {{p[i] : i \in 1..Len(p)} : p \in PageContents}
        |-> extract_project_data(r)]

\* proyecto_data = self._extract_project_data(row)
extract_row(row) ==
    IF row \in DOMAIN KnownExtracted THEN KnownExtracted[row]
    ELSE extract_project_data(row)

\* _scrape_current_page: the records of the rows; [] on any exception
scrape_current_page(o, rows) ==
    IF o = "ok"
    THEN Flatten([i \in 1..Len(rows) |-> extract_row(rows[i])])
    ELSE <<>>

\* _scrape_current_page: the except clause that takes the exception o
scrape_current_page_handler(o) ==
    IF IsInstance(o, "TimeoutException") THEN "except TimeoutException"
    ELSE "except Exception"

\* _has_next_page: False when the button is absent (NoSuchElementException),
\* on any other exception, when disabled or when aria-disabled is "true"
has_next_page(o, is_enabled, aria_disabled) ==
    o = "ok" /\ is_enabled /\ aria_disabled # "true"

\* _validate_scraped_data: the clean records, or the input when the
\* validation raises (vo is what validate_dataframe did)
validate_scraped_data(proyectos, vo) ==
    IF vo = "ok" THEN validate_dataframe(proyectos).cleaned_df ELSE proyectos

\* A scrape() whose handler takes TimeoutException only
scrape_catches_TimeoutOnly(e) == IsInstance(e, "TimeoutException")

\* scrape(): except Exception
scrape_catches(e) == IsInstance(e, "Exception")

\* A pagination loop that runs one page past the cap
loop_continues_PastCap(pn, mp) == pn <= mp + 1

\* _scrape_all_pages: while page_num <= max_pages
loop_continues(pn, mp) == pn <= mp

\* _scrape_all_pages: except Exception around the loop body
page_loop_catches(e) == IsInstance(e, "Exception")

\* get_statistics(): stats plus duration_seconds (<<>> is None)
get_statistics(st) ==
    [stats |-> st,
     duration_seconds |->
        IF st.start_time # TimeNone /\ st.end_time # TimeNone
        THEN <<st.end_time - st.start_time>> ELSE <<>>]

\* ---------------------------------------------------------------- actions
\* scrape() returns res; the finally clause stops the monitor
Finish(res) ==
    /\ result' = res
    /\ outcome' = "returned"
    /\ pc' = "idle"
    /\ monitoring_active' = FALSE

\* A step returned False: scrape() returns []
FailStep(name) ==
    /\ failedStep' = name
    /\ Finish(<<>>)

\* An exception e reaches the try block of scrape()
RaiseInScrape(e) ==
    IF scrape_catches(e)
    THEN /\ stats' = [stats EXCEPT !.errors_encountered = @ + 1]
         /\ Finish(<<>>)
    ELSE /\ stats' = stats
         /\ result' = <<>>
         /\ outcome' = "raised"
         /\ pc' = "idle"
         /\ monitoring_active' = FALSE

\* scrape() is called: start_time, start_monitoring()
ScrapeCall ==
    /\ pc = "idle"
    /\ run < MaxRuns
    /\ run' = run + 1
    /\ statsAtStart' = stats
    /\ stats' = [stats EXCEPT !.start_time = clock]
    /\ clock' = clock + 1
    /\ monitoring_active' = TRUE
    /\ pc' = "check_connection"
    /\ outcome' = "running"
    /\ result' = <<>>
    /\ steps' = <<"connectivity">>
    /\ failedStep' = ""
    /\ siteOpened' = FALSE
    /\ validation' = "not_run"
    /\ sel' = 0
    /\ attempt' = 0 /\ clickLog' = <<>> /\ clickRet' = "none"
    /\ page_num' = 0 /\ all_proyectos' = <<>> /\ pageLog' = <<>>
    /\ pageExc' = "none" /\ noNextAt' = 0 /\ nextFailedAt' = 0
    /\ capClick' = FALSE
    /\ browserPage' = 0
    /\ retriesMade' = 0
    /\ sleepLog' = <<>>
    /\ UNCHANGED <<config, utilVars>>

\* A scrape() that goes on to navigate after a failed connectivity check
CheckConnection_NoReturn ==
    /\ pc = "check_connection"
    /\ \E resp \in {"200", "503", "exception"} :
          failedStep' = IF check_connection(resp) THEN failedStep ELSE "connectivity"
    /\ pc' = "navigate"
    /\ steps' = Append(steps, "navigate")
    /\ attempt' = 0
    /\ UNCHANGED <<config, utilVars, retriesMade, sleepLog, stats, clock, run, sel, clickLog, clickRet, pageVars,
                   browserPage, siteOpened, statsAtStart, validation, capClick,
                   result, outcome, monitoring_active>>

\* A scrape() that counts a failed connectivity check as an error
CheckConnection_CountsError ==
    /\ pc = "check_connection"
    /\ \E resp \in {"200", "503", "exception"} :
          IF check_connection(resp)
          THEN /\ pc' = "navigate"
               /\ steps' = Append(steps, "navigate")
               /\ UNCHANGED <<result, outcome, monitoring_active, failedStep, stats>>
          ELSE /\ FailStep("connectivity")
               /\ stats' = [stats EXCEPT !.errors_encountered = @ + 1]
               /\ UNCHANGED steps
    /\ attempt' = 0
    /\ UNCHANGED <<config, utilVars, retriesMade, sleepLog, clock, run, sel, clickLog,
                   clickRet, pageVars, browserPage, siteOpened, statsAtStart,
                   validation, capClick>>

\* if not self._check_connection(): return []
CheckConnection ==
    /\ pc = "check_connection"
    /\ \E resp \in {"200", "503", "exception"} :
          IF check_connection(resp)
          THEN /\ pc' = "navigate"
               /\ steps' = Append(steps, "navigate")
               /\ UNCHANGED <<result, outcome, monitoring_active, failedStep>>
          ELSE /\ FailStep("connectivity")
               /\ UNCHANGED steps
    /\ attempt' = 0
    /\ UNCHANGED <<config, utilVars, retriesMade, sleepLog, stats, clock, run, sel, clickLog, clickRet, pageVars,
                   browserPage, siteOpened, statsAtStart, validation, capClick>>

\* A _safe_navigate that waits retry_delay after every failed attempt
navigate_sleep_Fixed(o, att, mr) ==
    IF (IsInstance(o, "TimeoutException") \/ IsInstance(o, "WebDriverException"))
       /\ att < mr - 1
    THEN <<retry_delay>> ELSE <<>>

\* _safe_navigate: the time.sleep calls of the handler of the exception o of
\* pass att; the successful pass sleeps before returning, not between
\* attempts
navigate_sleep(o, att, mr) ==
    IF (IsInstance(o, "TimeoutException") \/ IsInstance(o, "WebDriverException"))
       /\ att < mr - 1
    THEN <<retry_delay * (att + 1)>> ELSE <<>>

\* _safe_click: the time.sleep calls of the handler of the exception o of
\* pass att
click_sleep(o, att, mr) ==
    IF (IsInstance(o, "ElementClickInterceptedException")
        \/ IsInstance(o, "StaleElementReferenceException"))
       /\ att < mr - 1
    THEN <<retry_delay>> ELSE <<>>

\* The passes of a retry loop after the first, counted: d is what the pass decided
RetryCounted(d) ==
    retriesMade' = IF d = "retry" THEN retriesMade + 1 ELSE retriesMade

\* one pass of the loop of _safe_navigate(self.base_url), driver.get doing o
SafeNavigatePass(o) ==
    LET d == safe_navigate_step(o, attempt, max_retries)
    IN /\ pc = "navigate"
       /\ browserPage' = IF o = "ok" THEN 0 ELSE browserPage
       /\ CASE d = "return_true" ->
                 /\ pc' = "wait_load"
                 /\ attempt' = 0
                 /\ UNCHANGED <<result, outcome, monitoring_active, failedStep>>
            [] d = "retry" ->
                 /\ attempt' = attempt + 1
                 /\ UNCHANGED <<pc, result, outcome, monitoring_active, failedStep>>
            [] d = "return_false" ->
                 /\ attempt' = 0
                 /\ FailStep("navigate")
       /\ siteOpened' = TRUE
       /\ UNCHANGED <<config, utilVars, stats, clock, run, sel, clickLog,
                      clickRet, pageVars, steps, statsAtStart, validation, capClick>>

\* _safe_navigate inside scrape()
NavigateAttempt ==
    \E o \in CallOutcomes : SafeNavigatePass(o) /\ UNCHANGED <<retriesMade, sleepLog>>

\* self._wait_for_page_load()
WaitForPageLoad ==
    /\ pc = "wait_load"
    /\ \E o \in CallOutcomes :
          IF o = "ok" \/ wait_for_page_load_catches(o)
          THEN /\ pc' = "filters_find"
               /\ sel' = 1
               /\ steps' = Append(steps, "open_filters")
               /\ UNCHANGED <<stats, result, outcome, monitoring_active>>
          ELSE /\ RaiseInScrape(o)
               /\ UNCHANGED <<sel, steps>>
    /\ UNCHANGED <<config, utilVars, retriesMade, sleepLog, clock, run, clickVars, pageVars, browserPage, siteOpened,
                   failedStep, statsAtStart, validation, capClick>>

\* The selector loop giving up with one selector of the list still untried
NextSelector_GiveUpEarly(name, tryPc) ==
    IF sel < NumSelectors - 1
    THEN /\ sel' = sel + 1
         /\ pc' = tryPc
         /\ UNCHANGED <<result, outcome, monitoring_active, failedStep>>
    ELSE /\ sel' = 0
         /\ FailStep(name)

\* The selector sel of a step gave nothing: the next one, or the step fails
NextSelector(name, tryPc) ==
    IF sel < NumSelectors
    THEN /\ sel' = sel + 1
         /\ pc' = tryPc
         /\ UNCHANGED <<result, outcome, monitoring_active, failedStep>>
    ELSE /\ sel' = 0
         /\ FailStep(name)

\* _open_advanced_filters / _execute_search: _safe_find_element(selector)
FindButton ==
    /\ pc \in {"filters_find", "search_find"}
    /\ \E o \in CallOutcomes :
          IF safe_find_element(o)
          THEN /\ pc' = IF pc = "filters_find" THEN "filters_click" ELSE "search_click"
               /\ UNCHANGED <<sel, result, outcome, monitoring_active, failedStep>>
          ELSE NextSelector(IF pc = "filters_find" THEN "open_filters"
                            ELSE "execute_search", pc)
    /\ attempt' = 0 /\ clickLog' = <<>> /\ clickRet' = "none"
    /\ UNCHANGED <<config, utilVars, retriesMade, sleepLog, stats, clock, run, pageVars, browserPage, siteOpened,
                   steps, statsAtStart, validation, capClick>>

\* one pass of the loop of _safe_click(element), the click doing o
SafeClickPass(o) ==
    LET d == safe_click_step(o, attempt, max_retries)
    IN /\ pc \in {"filters_click", "search_click", "next_click", "safe_click"}
       /\ browserPage' = IF o = "ok" /\ pc = "search_click" THEN 1
                         ELSE IF o = "ok" /\ pc = "next_click" THEN browserPage + 1
                         ELSE browserPage
       /\ IF d = "retry"
          THEN /\ attempt' = attempt + 1
               /\ UNCHANGED <<pc, clickRet>>
          ELSE /\ attempt' = attempt
               /\ clickRet' = IF d = "return_true" THEN "true" ELSE "false"
               /\ pc' = CASE pc = "filters_click" -> "filters_clicked"
                          [] pc = "search_click" -> "search_clicked"
                          [] pc = "next_click" -> "next_clicked"
                          [] pc = "safe_click" -> "safe_clicked"
       /\ capClick' = (capClick \/ (pc = "next_click" /\ Len(pageLog) >= max_pages))
       /\ UNCHANGED <<config, utilVars, stats, clock, monitoring_active, run, sel, pageVars,
                      siteOpened, result, outcome, steps, failedStep, statsAtStart,
                      validation>>

\* _safe_click inside scrape()
ClickAttempt ==
    \E o \in CallOutcomes : SafeClickPass(o) /\ UNCHANGED <<clickLog, retriesMade, sleepLog>>

\* _open_advanced_filters: if element and self._safe_click(element): return True
FiltersClicked ==
    /\ pc = "filters_clicked"
    /\ IF clickRet = "true"
       THEN /\ pc' = "desde"
            /\ sel' = 1
            /\ steps' = Append(steps, "set_dates")
            /\ UNCHANGED <<result, outcome, monitoring_active, failedStep>>
       ELSE /\ NextSelector("open_filters", "filters_find")
            /\ UNCHANGED steps
    /\ attempt' = 0 /\ clickLog' = <<>> /\ clickRet' = "none"
    /\ UNCHANGED <<config, utilVars, retriesMade, sleepLog, stats, clock, run, pageVars, browserPage, siteOpened,
                   statsAtStart, validation, capClick>>

\* _set_date_range: one selector of the 'desde' or of the 'hasta' input
DateSelectorTry ==
    /\ pc \in {"desde", "hasta"}
    /\ \E o \in CallOutcomes, oi \in {"ok", "Exception"} :
          /\ o # "ok" => oi = "ok"      \* no element, no send_keys
          /\ IF safe_find_element(o) /\ safe_input(oi)
             THEN /\ pc' = IF pc = "desde" THEN "hasta" ELSE "search_find"
                  /\ sel' = 1
                  /\ steps' = IF pc = "desde" THEN steps
                              ELSE Append(steps, "execute_search")
                  /\ UNCHANGED <<result, outcome, monitoring_active, failedStep>>
             ELSE /\ NextSelector("set_dates", pc)
                  /\ UNCHANGED steps
    /\ UNCHANGED <<config, utilVars, retriesMade, sleepLog, stats, clock, run, clickVars, pageVars, browserPage,
                   siteOpened, statsAtStart, validation, capClick>>

\* _execute_search: if element and self._safe_click(element): return True;
\* then _scrape_all_pages() begins
SearchClicked ==
    /\ pc = "search_clicked"
    /\ IF clickRet = "true"
       THEN /\ pc' = "page"
            /\ sel' = 0
            /\ page_num' = 1
            /\ all_proyectos' = <<>>
            /\ steps' = Append(steps, "paginate")
            /\ UNCHANGED <<result, outcome, monitoring_active, failedStep>>
       ELSE /\ NextSelector("execute_search", "search_find")
            /\ UNCHANGED <<steps, page_num, all_proyectos>>
    /\ attempt' = 0 /\ clickLog' = <<>> /\ clickRet' = "none"
    /\ UNCHANGED <<config, utilVars, retriesMade, sleepLog, stats, clock, run, pageLog, pageExc, noNextAt,
                   nextFailedAt, browserPage, siteOpened, statsAtStart, validation,
                   capClick>>

\* _scrape_all_pages, loop body: proyectos_pagina = self._scrape_current_page();
\* break when it is empty, else extend and count the page
ScrapeCurrentPage ==
    /\ pc = "page"
    /\ \E o \in CallOutcomes, rows \in PageContents :
          LET proyectos_pagina == scrape_current_page(o, rows)
          IN /\ o # "ok" => rows = <<>>      \* nothing is read
             /\ pageExc' = IF o = "ok" THEN pageExc
                          ELSE scrape_current_page_handler(o)
             /\ IF proyectos_pagina = <<>>
                THEN /\ pc' = "validate"
                     /\ UNCHANGED <<all_proyectos, stats, pageLog>>
                ELSE /\ all_proyectos' = all_proyectos \o proyectos_pagina
                     /\ stats' = [stats EXCEPT !.pages_scraped = @ + 1]
                     /\ pageLog' = Append(pageLog, proyectos_pagina)
                     /\ pc' = "has_next"
    /\ UNCHANGED <<config, utilVars, retriesMade, sleepLog, clock, monitoring_active, run, sel, clickVars, page_num,
                   noNextAt, nextFailedAt, browserPage, siteOpened, result, outcome,
                   steps, failedStep, statsAtStart, validation, capClick>>

\* if not self._has_next_page(): break
HasNextPage ==
    /\ pc = "has_next"
    /\ \E o \in CallOutcomes, is_enabled \in BOOLEAN,
          aria_disabled \in {"true", "false", "None"} :
          \* no button, no attributes
          /\ o # "ok" => (is_enabled /\ aria_disabled = "None")
          /\ IF has_next_page(o, is_enabled, aria_disabled)
             THEN /\ pc' = "next_find"
                  /\ UNCHANGED noNextAt
             ELSE /\ pc' = "validate"
                  /\ noNextAt' = page_num
    /\ UNCHANGED <<config, utilVars, retriesMade, sleepLog, stats, clock, monitoring_active, run, sel, clickVars,
                   page_num, all_proyectos, pageLog, pageExc, nextFailedAt,
                   browserPage, siteOpened, result, outcome, steps, failedStep,
                   statsAtStart, validation, capClick>>

\* _go_to_next_page: driver.find_element; any exception returns False
GoToNextPage ==
    /\ pc = "next_find"
    /\ \E o \in CallOutcomes :
          IF o = "ok"
          THEN /\ pc' = "next_click"
               /\ UNCHANGED nextFailedAt
          ELSE /\ pc' = "validate"
               /\ nextFailedAt' = page_num
    /\ attempt' = 0 /\ clickLog' = <<>> /\ clickRet' = "none"
    /\ UNCHANGED <<config, utilVars, retriesMade, sleepLog, stats, clock, monitoring_active, run, sel, page_num,
                   all_proyectos, pageLog, pageExc, noNextAt, browserPage,
                   siteOpened, result, outcome, steps, failedStep, statsAtStart,
                   validation, capClick>>

\* if not self._go_to_next_page(): break; page_num += 1; while page_num <= max_pages
NextClicked ==
    /\ pc = "next_clicked"
    /\ IF clickRet = "true"
       THEN /\ page_num' = page_num + 1
            /\ pc' = IF loop_continues(page_num + 1, max_pages) THEN "page"
                     ELSE "validate"
            /\ UNCHANGED nextFailedAt
       ELSE /\ pc' = "validate"
            /\ nextFailedAt' = page_num
            /\ UNCHANGED page_num
    /\ attempt' = 0 /\ clickLog' = <<>> /\ clickRet' = "none"
    /\ UNCHANGED <<config, utilVars, retriesMade, sleepLog, stats, clock, monitoring_active, run, sel, all_proyectos,
                   pageLog, pageExc, noNextAt, browserPage, siteOpened, result,
                   outcome, steps, failedStep, statsAtStart, validation, capClick>>

\* _scrape_all_pages: except Exception: errors_encountered += 1; break.  The
\* helpers catch what the browser raises, so e is raised by the loop body itself.
PageLoopException ==
    /\ pc \in {"page", "has_next", "next_find"}
    /\ \E e \in ExcKinds :
          IF page_loop_catches(e)
          THEN /\ stats' = [stats EXCEPT !.errors_encountered = @ + 1]
               /\ pc' = "validate"
               /\ UNCHANGED <<result, outcome, monitoring_active>>
          ELSE RaiseInScrape(e)
    /\ pageExc' = "loop"
    /\ UNCHANGED <<config, utilVars, retriesMade, sleepLog, clock, run, sel, clickVars, page_num, all_proyectos,
                   pageLog, noNextAt, nextFailedAt, browserPage, siteOpened, steps,
                   failedStep, statsAtStart, validation, capClick>>

\* if proyectos: proyectos = self._validate_scraped_data(proyectos);
\* end_time, projects_found; return proyectos
ValidateAndReturn ==
    /\ pc = "validate"
    /\ \E vo \in {"ok", "Exception"} :
          /\ all_proyectos = <<>> => vo = "ok"
          /\ validation' = IF all_proyectos = <<>> THEN "not_run"
                           ELSE IF vo = "ok" THEN "ok" ELSE "raised"
          /\ steps' = IF all_proyectos = <<>> THEN steps
                      ELSE Append(steps, "validate")
          /\ Finish(IF all_proyectos # <<>>
                    THEN validate_scraped_data(all_proyectos, vo)
                    ELSE all_proyectos)
          /\ stats' = [stats EXCEPT !.end_time = clock,
                                    !.projects_found = Len(result')]
    /\ UNCHANGED <<config, utilVars, retriesMade, sleepLog, clock, run, sel, clickVars, pageVars, browserPage,
                   siteOpened, failedStep, statsAtStart, capClick>>

Next ==
    \/ ScrapeCall
    \/ CheckConnection
    \/ NavigateAttempt
    \/ WaitForPageLoad
    \/ FindButton
    \/ ClickAttempt
    \/ FiltersClicked
    \/ DateSelectorTry
    \/ SearchClicked
    \/ ScrapeCurrentPage
    \/ HasNextPage
    \/ GoToNextPage
    \/ NextClicked
    \/ PageLoopException
    \/ ValidateAndReturn

Spec == Init /\ [][Next]_vars

\* ------------------------------- scrape() with the retry passes counted
NavigateAttemptCounted ==
    \E o \in CallOutcomes :
        /\ SafeNavigatePass(o)
        /\ RetryCounted(safe_navigate_step(o, attempt, max_retries))
        /\ UNCHANGED sleepLog

ClickAttemptCounted ==
    \E o \in CallOutcomes :
        /\ SafeClickPass(o)
        /\ RetryCounted(safe_click_step(o, attempt, max_retries))
        /\ UNCHANGED <<clickLog, sleepLog>>

NextRetries ==
    \/ ScrapeCall
    \/ CheckConnection
    \/ NavigateAttemptCounted
    \/ WaitForPageLoad
    \/ FindButton
    \/ ClickAttemptCounted
    \/ FiltersClicked
    \/ DateSelectorTry
    \/ SearchClicked
    \/ ScrapeCurrentPage
    \/ HasNextPage
    \/ GoToNextPage
    \/ NextClicked
    \/ PageLoopException
    \/ ValidateAndReturn

SpecRetries == Init /\ [][NextRetries]_vars

\* ----------------------------------- scrape() with the sleeps of its retries
\* the sleeps of a retry loop, kept from its first pass on
NavigateAttemptSlept ==
    \E o \in CallOutcomes :
        /\ SafeNavigatePass(o)
        /\ sleepLog' = (IF attempt = 0 THEN <<>> ELSE sleepLog)
                           \o navigate_sleep(o, attempt, max_retries)
        /\ UNCHANGED retriesMade

ClickAttemptSlept ==
    \E o \in CallOutcomes :
        /\ SafeClickPass(o)
        /\ sleepLog' = (IF attempt = 0 THEN <<>> ELSE sleepLog)
                           \o click_sleep(o, attempt, max_retries)
        /\ UNCHANGED <<clickLog, retriesMade>>

NextSleeps ==
    \/ ScrapeCall
    \/ CheckConnection
    \/ NavigateAttemptSlept
    \/ WaitForPageLoad
    \/ FindButton
    \/ ClickAttemptSlept
    \/ FiltersClicked
    \/ DateSelectorTry
    \/ SearchClicked
    \/ ScrapeCurrentPage
    \/ HasNextPage
    \/ GoToNextPage
    \/ NextClicked
    \/ PageLoopException
    \/ ValidateAndReturn

SpecSleeps == Init /\ [][NextSleeps]_vars

\* ------------------------------------------- _safe_click called on its own
\* self._safe_click(element) is called on the constructed scraper
SafeClickCall ==
    /\ pc = "idle"
    /\ clickRet = "none"
    /\ pc' = "safe_click"
    /\ attempt' = 0
    /\ clickLog' = <<>>
    /\ UNCHANGED <<config, utilVars, retriesMade, sleepLog, stats, clock, monitoring_active, run, sel, clickRet,
                   pageVars, browserPage, siteOpened, result, outcome, steps,
                   failedStep, statsAtStart, validation, capClick>>

\* one pass of its loop, the attempt's outcome kept in clickLog
SafeClickAttempt ==
    \E o \in CallOutcomes :
        /\ SafeClickPass(o)
        /\ clickLog' = Append(clickLog, o)
        /\ UNCHANGED <<retriesMade, sleepLog>>

NextClick ==
    \/ SafeClickCall
    \/ SafeClickAttempt

SpecClick == Init /\ [][NextClick]_vars

\* ---------------------------------- _scrape_current_page called on its own
\* self._scrape_current_page() on a page showing the rows rs, the wait for
\* the table doing o; the call reads nothing of the scraper and writes
\* nothing to it, so one call with rows is made in a behaviour
ScrapeCurrentPageCall ==
    /\ page_rows = <<>>
    /\ \E o \in CallOutcomes,
          rs \in UNION {[1..n -> TableRows] : n \in 0..MaxRows} :
          /\ o # "ok" => rs = <<>>      \* nothing is read
          /\ page_rows' = rs
          /\ page_proyectos' = scrape_current_page(o, rs)
    /\ UNCHANGED <<scraperVars, validatorVars, cleanerVars, monitorVars>>

SpecPage == Init /\ [][ScrapeCurrentPageCall]_vars

\* ------------------------------------------------------------------ claims
\* The steps of scrape() in the order of its body.
StepOrder ==
    <<"connectivity", "navigate", "open_filters", "set_dates", "execute_search",
      "paginate", "validate">>

\* C1: whatever the steps do, an exception raised among them included,
\* scrape() never lets an exception through to its caller, and what it
\* returns is a list.
C1_ScrapeNeverRaises ==
    /\ outcome # "raised"
    /\ outcome = "returned" => DOMAIN result = 1..Len(result)

\* C1 case: _wait_for_page_load raised inside scrape(), which counted the
\* error and returned the empty list.
C1_Witness ==
    /\ outcome = "returned"
    /\ steps = <<"connectivity", "navigate">>
    /\ failedStep = ""
    /\ stats.errors_encountered = statsAtStart.errors_encountered + 1
    /\ result = <<>>

\* C2: the steps a call has entered are a prefix of the fixed order; a step
\* of the first five that fails is the last one entered and the call has
\* returned the empty list; after a failed connectivity check the site was
\* not opened.
C2_StepsInOrderShortCircuit ==
    /\ Len(steps) <= Len(StepOrder)
    /\ steps = SubSeq(StepOrder, 1, Len(steps))
    /\ failedStep # "" =>
          /\ outcome = "returned"
          /\ result = <<>>
          /\ steps[Len(steps)] = failedStep
          /\ Len(steps) <= 5
    /\ failedStep = "connectivity" => ~siteOpened

\* C2 case: a second call whose connectivity check failed, on an instance
\* whose first call had scraped pages: the site is not opened again.
C2_Witness ==
    /\ run = 2
    /\ statsAtStart.pages_scraped > 0
    /\ outcome = "returned"
    /\ failedStep = "connectivity"
    /\ steps = <<"connectivity">>
    /\ ~siteOpened
    /\ result = <<>>

\* C3: when the next-page control is first reported absent or disabled on
\* page k, the call stops after extracting page k and the statistics report
\* pages_scraped = k.
C3_StopsAtPageK ==
    (outcome = "returned" /\ noNextAt > 0) =>
        /\ Len(pageLog) = noNextAt
        /\ stats.pages_scraped = noNextAt

\* C4: one call extracts rows from at most max_pages pages: pages_scraped
\* grows by at most max_pages, and the loop variable never passes
\* max_pages + 1, where the loop ends.
C4_AtMostMaxPagesExtracted ==
    /\ stats.pages_scraped - statsAtStart.pages_scraped <= max_pages
    /\ Len(pageLog) <= max_pages
    /\ page_num <= max_pages + 1
    /\ pc \in {"page", "has_next", "next_find", "next_click", "next_clicked"}
          => page_num <= max_pages

\* C4 case: the next-page control stayed enabled and the cap ended the loop
\* after max_pages = 2 pages.
C4_Witness ==
    /\ max_pages = 2
    /\ pc = "validate"
    /\ page_num = max_pages + 1
    /\ Len(pageLog) = max_pages
    /\ stats.pages_scraped - statsAtStart.pages_scraped = max_pages

\* C5: once max_pages pages are extracted no next-page click is issued, and
\* the browser is never brought to page max_pages + 1.
C5_NoClickPastCap ==
    /\ ~capClick
    /\ browserPage <= max_pages

\* C6: when going to the next page fails after n >= 1 extracted pages, the
\* records of the n pages, in page order, go to validation and the call
\* returns with pages_scraped = n.
C6_NextFailureKeepsPages ==
    (outcome = "returned" /\ nextFailedAt > 0) =>
        /\ Len(pageLog) = nextFailedAt
        /\ all_proyectos = Flatten(pageLog)
        /\ validation # "not_run"
        /\ stats.pages_scraped = nextFailedAt

\* C7: an exception met while a page is processed adds one to
\* errors_encountered, ends the pagination and keeps the earlier pages.
C7_PageExceptionCounted ==
    (outcome = "returned" /\ pageExc # "none") =>
        /\ stats.errors_encountered = statsAtStart.errors_encountered + 1
        /\ all_proyectos = Flatten(pageLog)

\* C8: a _safe_click never makes more than max_retries attempts, and when
\* every attempt was intercepted it has made exactly max_retries attempts
\* and returned False.
C8_InterceptedClickExhaustsRetries ==
    /\ Len(clickLog) <= max_retries
    /\ pc = "safe_click" => attempt = Len(clickLog) /\ attempt < max_retries
    /\ (pc = "safe_clicked"
        /\ \A i \in 1..Len(clickLog) : clickLog[i] = "ElementClickInterceptedException")
          => (Len(clickLog) = max_retries /\ clickRet = "false")

\* C8 case: max_retries = 3 intercepted attempts, then False.
C8_Witness ==
    /\ pc = "safe_clicked"
    /\ max_retries = 3
    /\ clickLog = <<"ElementClickInterceptedException",
                    "ElementClickInterceptedException",
                    "ElementClickInterceptedException">>
    /\ clickRet = "false"

\* C9: a call that returns records ran the batch validation to its end, and
\* every returned record is the cleaned data of a row that had no error.
C9_ReturnedRecordsValidated ==
    (outcome = "returned" /\ result # <<>>) =>
        /\ validation = "ok"
        /\ \A i \in 1..Len(result) :
              \E j \in 1..Len(all_proyectos) :
                 /\ validate_row(all_proyectos[j]).is_valid
                 /\ result[i] = validate_row(all_proyectos[j]).cleaned_data

\* C10: after scrape() has returned, end_time is set and get_statistics()
\* gives a duration.
C10_DurationAfterReturn ==
    outcome = "returned" =>
        /\ stats.end_time # TimeNone
        /\ get_statistics(stats).duration_seconds # <<>>

\* ------------------------------------------ the validator called on its own
\* what validate_record lets out for each row of a DataFrame of raw records,
\* and of a cleaned_df
RowExceptions(batch) == [i \in 1..Len(batch) |-> record_exception(batch[i])]
CleanRowExceptions(batch) ==
    [i \in 1..Len(batch) |-> clean_record_exception(batch[i])]
\* the exception of the first row that raises one
FirstException(exceptions) ==
    IF RowsBeforeRaise(exceptions) = Len(exceptions) THEN "none"
    ELSE exceptions[RowsBeforeRaise(exceptions) + 1]

\* DataValidator().validate_record(record)
ValidateRecordCall ==
    /\ vop = "none"
    /\ \E i \in 1..Len(DictRecords) :
          /\ df' = <<DictRecords[i]>>
          /\ vcall' = IF record_exception(DictRecords[i]) = "none" THEN "returned"
                      ELSE record_exception(DictRecords[i])
          /\ vresults' = IF record_exception(DictRecords[i]) = "none"
                         THEN <<validate_row(DictRecords[i])>> ELSE <<>>
    /\ vop' = "validate_record"
    /\ UNCHANGED <<scraperVars, cleanerVars, monitorVars, rowVars, vpass, df_clean,
                   validation_report>>

\* validate_dataframe(batch): the row loop validates the rows in order until
\* validate_record raises exc, and nothing is returned then; results holds
\* the results of the rows validated
DataframeCall(batch, exc, results) ==
    /\ df' = batch
    /\ vop' = "validate_dataframe"
    /\ vpass' = vpass + 1
    /\ vresults' = results
    /\ IF exc = "none"
       THEN /\ vcall' = "returned"
            /\ df_clean' = RowsResult(batch, results).cleaned_df
            /\ validation_report' = RowsResult(batch, results).validation_report
       ELSE /\ vcall' = exc
            /\ df_clean' = <<>>
            /\ validation_report' = EmptyReport
    /\ UNCHANGED <<scraperVars, cleanerVars, monitorVars, rowVars>>

\* DataValidator().validate_dataframe(pd.DataFrame(batch)) on raw records
ValidateDataframeCall ==
    /\ vop = "none"
    /\ \E batch \in Batches :
          DataframeCall(batch, FirstException(RowExceptions(batch)),
                        ValidateRows(SubSeq(batch, 1,
                                            RowsBeforeRaise(RowExceptions(batch)))))

\* validate_dataframe(cleaned_df): the clean output validated a second time
RevalidateCall ==
    /\ vop = "validate_dataframe"
    /\ vpass = 1
    /\ vcall = "returned"
    /\ DataframeCall(df_clean, FirstException(CleanRowExceptions(df_clean)),
                     ValidateCleanRows(SubSeq(df_clean, 1,
                         RowsBeforeRaise(CleanRowExceptions(df_clean)))))

NextValidator ==
    \/ ValidateRecordCall
    \/ ValidateDataframeCall
    \/ RevalidateCall

SpecValidator == Init /\ [][NextValidator]_vars

\* ------------------------------------------- the cleaner called on its own
\* DataCleaner().extraer_partido_politico(autores_str)
ExtraerPartidoCall ==
    /\ cleaner_op = "none"
    /\ cleaner_op' = "extraer_partido_politico"
    /\ \E i \in 1..Len(CleanerAutores) :
          /\ cleaner_in' = [autores |-> CleanerAutores[i], titulo |-> <<>>]
          /\ cleaner_out' = [partido_politico |->
                                 extraer_partido_politico(CleanerAutores[i]),
                             tipo_proyecto |-> <<>>]
    /\ UNCHANGED <<scraperVars, validatorVars, monitorVars, rowVars>>

\* DataCleaner().clasificar_tipo_proyecto(titulo)
ClasificarTipoCall ==
    /\ cleaner_op = "none"
    /\ cleaner_op' = "clasificar_tipo_proyecto"
    /\ \E i \in 1..Len(CleanerTitulos) :
          /\ cleaner_in' = [autores |-> <<>>, titulo |-> CleanerTitulos[i]]
          /\ cleaner_out' = [partido_politico |-> <<>>,
                             tipo_proyecto |->
                                 <<clasificar_tipo_proyecto(CleanerTitulos[i])>>]
    /\ UNCHANGED <<scraperVars, validatorVars, monitorVars, rowVars>>

\* DataCleaner().limpiar_dataframe(df), df of one row
LimpiarDataframeCall ==
    /\ cleaner_op = "none"
    /\ cleaner_op' = "limpiar_dataframe"
    /\ \E i \in 1..Len(CleanerAutores), j \in 1..Len(CleanerTitulos) :
          /\ cleaner_in' = [autores |-> CleanerAutores[i], titulo |-> CleanerTitulos[j]]
          /\ cleaner_out' = limpiar_dataframe(cleaner_in')
    /\ UNCHANGED <<scraperVars, validatorVars, monitorVars, rowVars>>

NextCleaner ==
    \/ ExtraerPartidoCall
    \/ ClasificarTipoCall
    \/ LimpiarDataframeCall

SpecCleaner == Init /\ [][NextCleaner]_vars

\* ------------------------------------- the PerformanceMonitor on its own
\* One thread calls start_monitoring() and stop_monitoring(); every started
\* thread runs _monitor_loop.

\* while self.monitoring_active
monitor_loop_test_Forever(active) == TRUE
monitor_loop_test(active) == active

\* start_monitoring(): a warning and nothing else when monitoring is active,
\* else the flag set and a new daemon thread started
StartMonitoring ==
    /\ stop_pc = "idle"
    /\ \E t \in 1..MaxStarts :
          /\ threads[t] = "unborn"
          /\ \A u \in 1..(t - 1) : threads[u] # "unborn"
          /\ IF monitoring_active
             THEN UNCHANGED <<monitoring_active, threads, monitor_thread>>
             ELSE /\ monitoring_active' = TRUE
                  /\ threads' = [threads EXCEPT ![t] = "test"]
                  /\ monitor_thread' = t
    /\ UNCHANGED <<nonMonitorVars, stop_pc, metrics_history>>

\* stop_monitoring(), up to the join: the flag cleared
StopMonitoring ==
    /\ stop_pc = "idle"
    /\ monitoring_active' = FALSE
    /\ stop_pc' = IF monitor_thread # 0 THEN "joining" ELSE "idle"
    /\ UNCHANGED <<nonMonitorVars, threads, monitor_thread, metrics_history>>

\* self.monitor_thread.join(timeout=5.0) returns: the thread has exited, or
\* the five seconds have passed
JoinReturns ==
    /\ stop_pc = "joining"
    /\ stop_pc' = "idle"
    /\ UNCHANGED <<nonMonitorVars, monitoring_active, threads, monitor_thread,
                   metrics_history>>

\* _monitor_loop of thread t: the test of the while loop
MonitorLoopTest(t) ==
    /\ threads[t] = "test"
    /\ threads' = [threads EXCEPT ![t] = IF monitor_loop_test(monitoring_active)
                                         THEN "body" ELSE "exited"]
    /\ UNCHANGED <<nonMonitorVars, monitoring_active, monitor_thread, stop_pc,
                   metrics_history>>

\* the loop body up to the sleep: a sample appended and the oldest dropped
\* when more than the cap are held, or an exception of _get_current_metrics
\* caught before anything is appended
MonitorLoopSample(t) ==
    /\ threads[t] = "body"
    /\ threads' = [threads EXCEPT ![t] = "sleep"]
    /\ \E o \in {"ok", "Exception"} :
          metrics_history' =
             IF o # "ok" THEN metrics_history
             ELSE IF Len(metrics_history) + 1 > MaxHistory
                  THEN Tail(Append(metrics_history, t))
                  ELSE Append(metrics_history, t)
    /\ UNCHANGED <<nonMonitorVars, monitoring_active, monitor_thread, stop_pc>>

\* time.sleep(self.monitoring_interval) returns
MonitorLoopWake(t) ==
    /\ threads[t] = "sleep"
    /\ threads' = [threads EXCEPT ![t] = "test"]
    /\ UNCHANGED <<nonMonitorVars, monitoring_active, monitor_thread, stop_pc,
                   metrics_history>>

MonitorLoopStep(t) ==
    \/ MonitorLoopTest(t)
    \/ MonitorLoopSample(t)
    \/ MonitorLoopWake(t)

NextMonitor ==
    \/ StartMonitoring
    \/ StopMonitoring
    \/ JoinReturns
    \/ \E t \in 1..MaxStarts : MonitorLoopStep(t)

SpecMonitor == Init /\ [][NextMonitor]_vars

\* Every started thread is scheduled again and its sleep ends; join has a
\* timeout, so it returns.
SpecMonitorFair ==
    /\ SpecMonitor
    /\ \A t \in 1..MaxStarts : WF_vars(MonitorLoopStep(t))
    /\ WF_vars(JoinReturns)

\* C11: when a call of scrape() has returned, retries_performed is the number
\* of passes after the first that _safe_navigate and _safe_click made during
\* that call.
C11_RetriesPerformedCounted ==
    outcome = "returned" => stats.retries_performed = retriesMade

\* C12: the statistics reported after a call of scrape() count that call
\* only: the pages it extracted, the records it returned and the errors it
\* met, also when the same instance has scraped before.
C12_StatsScopedToCall ==
    outcome = "returned" =>
        /\ stats.pages_scraped = Len(pageLog)
        /\ stats.projects_found = Len(result)
        /\ stats.errors_encountered =
              stats.errors_encountered - statsAtStart.errors_encountered

\* the messages of a ValidationResult list that carry the prefix of a field
MessagesOf(msgs, field_name) == SelectSeq(msgs, LAMBDA m : m.field = field_name)
\* a row whose validation leaves no error outside the authors field
OnlyAuthorsErrors(record) ==
    \A k \in 1..Len(validate_row(record).errors) :
        validate_row(record).errors[k].field = "autores"
\* the rows of a batch that validate_record gives no error
ErrorFreeRows(batch) == SelectSeq(batch, LAMBDA r : validate_row(r).errors = <<>>)

\* C13: validate_dataframe on a batch returns, as its clean output, the
\* cleaned records of exactly the rows without an error, in the order of the
\* batch; rows with warnings only are among them.
C13_CleanOutputIsErrorFreeRows ==
    (vop = "validate_dataframe" /\ vpass = 1) =>
        /\ vcall = "returned"
        /\ df_clean = [i \in 1..Len(ErrorFreeRows(df)) |->
                          validate_row(ErrorFreeRows(df)[i]).cleaned_data]

\* C14: validate_record of a record whose bill id, date or title is empty
\* returns an invalid result with an error for each such field, whatever the
\* other fields hold.
C14_EmptyRequiredFieldIsError ==
    (/\ vop = "validate_record"
     /\ \E f \in {"proyecto", "fecha", "titulo"} : Get(df[1], f, <<>>) = <<>>) =>
        /\ vcall = "returned"
        /\ ~vresults[1].is_valid
        /\ \A f \in {"proyecto", "fecha", "titulo"} :
              Get(df[1], f, <<>>) = <<>> => MessagesOf(vresults[1].errors, f) # <<>>

\* C15: a record with an empty authors text and no error in its other five
\* fields is validated without an exception, is valid, carries a warning for
\* autores, and has the empty list as its cleaned authors.
C15_EmptyAuthorsValidWithWarning ==
    (vop # "none" /\ vpass <= 1) =>
        \A i \in 1..Len(df) :
            (Get(df[i], "autores", <<>>) = <<>> /\ OnlyAuthorsErrors(df[i])) =>
                /\ vop = "validate_record" => vcall = "returned"
                /\ i <= Len(vresults) =>
                      /\ vresults[i].is_valid
                      /\ MessagesOf(vresults[i].warnings, "autores") # <<>>
                      /\ vresults[i].cleaned_data.autores = <<>>

\* C15 case: validate_record has returned for a record whose only deviation
\* is its empty authors text.
C15_Witness ==
    /\ vop = "validate_record"
    /\ df = <<RecNoAuthors>>
    /\ vcall = "returned"
    /\ vresults[1].is_valid
    /\ vresults[1].cleaned_data.autores = <<>>

\* C16: a non-empty authors text never gives the record an error for
\* autores: tokens of at most two characters are dropped with a warning,
\* also when every token is that short.
C16_ShortAuthorTokensOnlyWarn ==
    (vop # "none" /\ vpass <= 1) =>
        \A i \in 1..Len(vresults) :
            (~Falsy(Get(df[i], "autores", <<>>)) /\ ~pd_isna(Get(df[i], "autores", <<>>)))
                => MessagesOf(vresults[i].errors, "autores") = <<>>

\* C17: every key of the per-field error and warning counts of a returned
\* validation report is one of the six field names.
C17_ReportKeysAreFieldNames ==
    (vop = "validate_dataframe" /\ vcall = "returned") =>
        /\ DOMAIN validation_report.field_errors \subseteq Fields
        /\ DOMAIN validation_report.field_warnings \subseteq Fields

\* C18: validate_record and validate_dataframe raise no exception on records
\* of strings, NaN cells and missing keys, and every row given is validated.
C18_ValidatorNeverRaises ==
    (vop # "none" /\ vpass <= 1) =>
        /\ vcall = "returned"
        /\ Len(vresults) = Len(df)

\* C19: validate_dataframe on the clean output of validate_dataframe returns,
\* reports no error and every record valid, and gives the same records back.
C19_RevalidationIdempotent ==
    vpass = 2 =>
        /\ vcall = "returned"
        /\ validation_report.total_errors = 0
        /\ validation_report.valid_records = Len(df)
        /\ df_clean = df

\* C20: on the two-row batch of raw records (row A with the cell labels in
\* its bill id and date, row B with an empty bill id) validate_dataframe
\* accepts row A, rejects row B and reports valid_records = 1,
\* invalid_records = 1.
C20_LabelledRowAccepted ==
    (vop = "validate_dataframe" /\ vpass = 1 /\ df = <<RecRowA, RecRowB>>) =>
        /\ vcall = "returned"
        /\ vresults[1].is_valid
        /\ ~vresults[2].is_valid
        /\ validation_report.valid_records = 1
        /\ validation_report.invalid_records = 1

\* C21: the political party and the project category derived for a record
\* are never null, also when its authors or title is empty or NaN.
C21_DerivedFieldsNeverNull ==
    /\ cleaner_op \in {"extraer_partido_politico", "limpiar_dataframe"}
          => cleaner_out.partido_politico # <<>>
    /\ cleaner_op \in {"clasificar_tipo_proyecto", "limpiar_dataframe"}
          => cleaner_out.tipo_proyecto # <<>>

\* C22: for an authors text, extraer_partido_politico returns the first
\* party of the table, in declaration order, whose name or one of whose
\* variants occurs in the upper-cased text, and DESCONOCIDO when none does
\* ('Juan Pérez - PERU LIBRE' names PERU LIBRE).
C22_FirstPartyNamedWins ==
    (/\ cleaner_op = "extraer_partido_politico"
     /\ ~pd_isna(cleaner_in.autores) /\ ~Falsy(cleaner_in.autores)) =>
        LET named == {i \in 1..Len(partidos_politicos) :
                        \/ Contains(Upper(cleaner_in.autores),
                                    partidos_politicos[i].partido)
                        \/ \E j \in 1..Len(partidos_politicos[i].variantes) :
                              Contains(Upper(cleaner_in.autores),
                                       Upper(partidos_politicos[i].variantes[j]))}
        IN cleaner_out.partido_politico =
              IF named = {} THEN <<DESCONOCIDO>>
              ELSE <<partidos_politicos[SetMin(named)].partido>>

\* C23: for a title, clasificar_tipo_proyecto returns the first category of
\* the table, in declaration order, one of whose keywords occurs in the
\* upper-cased title, and OTROS when none does; 'Ley de Reforma Educativa'
\* gives EDUCACION, 'Ley de Salud Pública' SALUD, 'Ley Misteriosa' OTROS.
C23_FirstCategoryWins ==
    (/\ cleaner_op = "clasificar_tipo_proyecto"
     /\ ~pd_isna(cleaner_in.titulo) /\ ~Falsy(cleaner_in.titulo)) =>
        LET matching == {i \in 1..Len(categorias) :
                           \E j \in 1..Len(categorias[i].palabras) :
                               Contains(Upper(cleaner_in.titulo),
                                        categorias[i].palabras[j])}
        IN /\ cleaner_out.tipo_proyecto =
                 IF matching = {} THEN <<OTROS>>
                 ELSE <<categorias[SetMin(matching)].categoria>>
           /\ cleaner_in.titulo = CleanerTitulos[1]
                 => cleaner_out.tipo_proyecto = <<categorias[1].categoria>>
           /\ cleaner_in.titulo = CleanerTitulos[2]
                 => cleaner_out.tipo_proyecto = <<categorias[2].categoria>>
           /\ cleaner_in.titulo = CleanerTitulos[3]
                 => cleaner_out.tipo_proyecto = <<OTROS>>

\* C24: once stop_monitoring() has cleared the flag, and unless a later
\* start_monitoring() sets it again, every sampling thread eventually leaves
\* its loop; a thread that has left never runs again, and only a thread in
\* the loop body appends a sample; stop_monitoring() waiting in join
\* eventually returns.
C24_StopEndsSampling ==
    /\ (~monitoring_active) ~>
          (monitoring_active \/ \A t \in 1..MaxStarts : threads[t] \in {"unborn", "exited"})
    /\ (stop_pc = "joining") ~> (stop_pc = "idle")
    /\ [][/\ \A t \in 1..MaxStarts : threads[t] = "exited" => threads'[t] = "exited"
          /\ metrics_history' # metrics_history
                => \E t \in 1..MaxStarts : threads[t] = "body" /\ threads'[t] = "sleep"]_vars

\* C24 case: stop_monitoring() has returned, the thread has appended a
\* sample and has left its loop.
C24_Witness ==
    /\ ~monitoring_active
    /\ stop_pc = "idle"
    /\ threads[1] = "exited"
    /\ metrics_history # <<>>

\* C25: at no time are two sampling threads past the test of their loop
\* and about to append to metrics_history.
C25_SingleSamplingThread ==
    Cardinality({t \in 1..MaxStarts : threads[t] = "body"}) <= 1

\* the call of an interactive step that position p of scrape() is inside:
\* open filters, date-from, date-to, submit search; "" outside of them
LocatorCall(p) ==
    CASE p \in {"filters_find", "filters_click", "filters_clicked"} -> "open_filters"
      [] p = "desde" -> "desde"
      [] p = "hasta" -> "hasta"
      [] p \in {"search_find", "search_click", "search_clicked"} -> "execute_search"
      [] OTHER -> ""

\* C26: inside the call of an interactive step the locators are tried one by
\* one in their order, the next one only after the current one failed its
\* lookup or its interaction; a locator whose lookup and click both succeeded
\* ends the call with success and no later locator is tried; the call
\* returns failure only at the last locator of its list, that one having
\* failed too.
C26_LocatorsTriedInOrder ==
    [][LocatorCall(pc) # "" =>
         /\ LocatorCall(pc') = LocatorCall(pc) =>
               /\ sel' \in {sel, sel + 1}
               /\ sel' = sel + 1 =>
                     /\ pc \notin {"filters_click", "search_click"}
                     /\ pc \in {"filters_clicked", "search_clicked"}
                           => clickRet = "false"
         /\ (pc \in {"filters_clicked", "search_clicked"} /\ clickRet = "true") =>
               /\ LocatorCall(pc') \notin {"", LocatorCall(pc)}
                     \/ pc' = "page"
               /\ failedStep' = failedStep
         /\ pc' = "idle" =>
               /\ sel = NumSelectors
               /\ pc \notin {"filters_click", "search_click"}
               /\ pc \in {"filters_clicked", "search_clicked"}
                     => clickRet = "false"
               /\ failedStep' = (IF LocatorCall(pc) \in {"desde", "hasta"}
                                 THEN "set_dates" ELSE LocatorCall(pc))]_vars

\* C26 case: the first locator of the filters button failed, the second was
\* found and clicked.
C26_Witness ==
    /\ pc = "filters_clicked"
    /\ sel = 2
    /\ clickRet = "true"

\* the exceptions after which _safe_click goes round its loop again
ClickRetried ==
    {"ElementClickInterceptedException", "StaleElementReferenceException"}

\* C27: in a _safe_click every attempt that was followed by another one had
\* raised click-intercepted or stale-element; an attempt that raised any
\* other exception is the last of the call, and the call returned False.
C27_OnlyInterceptedAndStaleRetried ==
    /\ \A i \in 1..Len(clickLog) :
          i < Len(clickLog) => clickLog[i] \in ClickRetried
    /\ (pc = "safe_click" /\ clickLog # <<>>)
          => clickLog[Len(clickLog)] \in ClickRetried
    /\ (pc = "safe_clicked" /\ clickLog[Len(clickLog)] \notin ClickRetried \cup {"ok"})
          => clickRet = "false"

\* C27 case: with max_retries = 3 the first attempt raised a timeout; the
\* call ended there with False.
C27_Witness ==
    /\ pc = "safe_clicked"
    /\ max_retries = 3
    /\ clickLog = <<"TimeoutException">>
    /\ clickRet = "false"

\* the rows of a page that have six cells or more and whose extraction
\* does not raise
RowsYielding(rs) == SelectSeq(rs, LAMBDA r : r.cells >= MinCells /\ r.exc = "ok")

\* C28: the records of a page are those of its rows with six cells or more
\* whose extraction did not raise, one record each, in the order of the
\* rows: a row under six cells or one that raised is left out and the rows
\* after it are still extracted. A record has the six fields, each a piece
\* of the text of its cell, and the field of a cell that failed is the empty
\* string.
C28_RowsSkippedCellsEmptied ==
    LET yielding == RowsYielding(page_rows)
    IN /\ Len(page_proyectos) = Len(yielding)
       /\ \A k \in 1..Len(yielding) :
             /\ DOMAIN page_proyectos[k] = Fields
             /\ \A f \in yielding[k].failed : page_proyectos[k][f] = <<>>
             /\ \A f \in {"proyecto", "fecha"} \ yielding[k].failed :
                   /\ page_proyectos[k][f] # <<>>
                   /\ Contains(yielding[k].data[f], page_proyectos[k][f])

\* C28 case: a page of three rows, the second of which raised, the third
\* with a title cell that failed: two records, the second with an empty
\* title.
C28_Witness ==
    /\ Len(page_rows) = 3
    /\ page_rows[1].exc = "ok" /\ page_rows[1].cells = 7 /\ page_rows[1].failed = {}
    /\ page_rows[2].exc = "Exception"
    /\ page_rows[3].failed = {"titulo"}
    /\ Len(page_proyectos) = 2
    /\ page_proyectos[2].titulo = <<>>

\* C29: a retry loop is in a pass numbered below max_retries; _safe_navigate
\* has slept retry_delay * k after its k-th failed attempt and _safe_click
\* retry_delay after each, for every failed attempt that another attempt
\* followed; the attempt on which the loop ends, failed or not, is followed
\* by no sleep.
C29_BackoffBetweenAttempts ==
    [][LET navigating == pc = "navigate"
           clicking == pc \in {"filters_click", "search_click", "next_click"}
           before == IF attempt = 0 THEN <<>> ELSE sleepLog
       IN (navigating \/ clicking) =>
            /\ attempt < max_retries
            /\ Len(before) = attempt
            /\ \A k \in 1..Len(before) :
                  before[k] = (IF navigating THEN retry_delay * k ELSE retry_delay)
            /\ IF pc' = pc /\ attempt' = attempt + 1
               THEN /\ attempt + 1 <= max_retries - 1
                    /\ sleepLog' = Append(before,
                                          IF navigating
                                          THEN retry_delay * (attempt + 1)
                                          ELSE retry_delay)
               ELSE sleepLog' = before]_vars

\* C29 case: with max_retries = 3 the first two attempts of _safe_navigate
\* failed, followed by sleeps of retry_delay and 2 * retry_delay; the third
\* failed too and scrape() returned without a further sleep.
C29_Witness ==
    /\ max_retries = 3
    /\ failedStep = "navigate"
    /\ pc = "idle"
    /\ sleepLog = <<retry_delay, 2 * retry_delay>>

\* the four counters of self.stats
Counters(st) ==
    <<st.pages_scraped, st.projects_found, st.errors_encountered,
      st.retries_performed>>

\* C30: when scrape() has returned because the connectivity check, the
\* navigation, the opening of the filters, the date range or the search
\* returned failure, the four counters are what they were when the call
\* began; and errors_encountered changes only on a step in which the
\* pagination loop or the handler of scrape() catches an exception.
C30_FatalStepLeavesCounters ==
    [][/\ (outcome' = "returned" /\ failedStep' # "") =>
             /\ failedStep' \in {"connectivity", "navigate", "open_filters",
                                  "set_dates", "execute_search"}
             /\ Counters(stats') = Counters(statsAtStart')
       /\ stats'.errors_encountered # stats.errors_encountered =>
             \/ /\ pc \in {"page", "has_next", "next_find"}
                /\ pc' = "validate"
                /\ pageExc' = "loop"
             \/ /\ pc \in {"wait_load", "page", "has_next", "next_find"}
                /\ pc' = "idle"
                /\ outcome' = "returned"
                /\ result' = <<>>
                /\ failedStep' = ""]_vars

\* C30 case: a second call on a scraper whose first call scraped a page and
\* counted an error; its search step returned failure.
C30_Witness ==
    /\ outcome = "returned"
    /\ failedStep = "execute_search"
    /\ stats.pages_scraped >= 1
    /\ stats.errors_encountered >= 1
====
